---- MODULE Spec2Model ----
(***************************************************************************)
(* Model of the translation microservice: the two-level cache              *)
(* (cache_manager.py), the cascading provider chain                        *)
(* (translation_services.py) and the /translate handler (main.py).         *)
(*                                                                         *)
(* Strings that the code transforms (texts, language codes, translations)  *)
(* are sequences of Unicode code points, so that lower(), strip() and the  *)
(* native-script test are computed and not assumed.  Fixed tokens (service *)
(* names, cache levels, the error message) are TLA+ strings.               *)
(* An optional value (Python None or a dict) is a sequence of length 0 or  *)
(* 1.                                                                      *)
(***************************************************************************)
EXTENDS Integers, Sequences, FiniteSets, TLC

VARIABLES
    hashSeed,             \* the process's str-hash seed (PYTHONHASHSEED)
    enable_l1,            \* MultiLevelCache.enable_l1
    redis_client,         \* MultiLevelCache.redis_client is not None
    enable_mock_fallback, \* TranslationServices.enable_mock_fallback
    l1,                   \* MultiLevelCache.l1_cache (TTLCache), in expiry order
    l2,                   \* the Redis keyspace: key -> [val, expires]
    now,                  \* the clock
    last,                 \* the last call made through the cache API at this instant
    tpc,                  \* position of the running translate call
    targs,                \* its arguments
    tlog,                 \* providers it has invoked so far, in order
    tfailed,              \* providers whose call ended in a failure outcome
    tresult,              \* its return value (optional)
    caller,               \* who runs the translate call: "direct" or "single"
    hreq,                 \* the /translate request being handled
    hget,                 \* what the handler's cache lookup did
    hresp,                \* the handler's response
    total_translations,   \* main.total_translations
    inst,                 \* the service processes that share the Redis keyspace
    gather,               \* the running translate_batch call and its tasks
    batch,                \* the /translate/batch request being handled
    reqs,                 \* /translate requests handled concurrently
    pure,                 \* the last call of a helper made on its own
    chunked,              \* the running _translate_single_chunk call
    audit                 \* the store_translation_in_db tasks and the translations table

vars == <<hashSeed, enable_l1, redis_client, enable_mock_fallback, l1, l2, now,
          last, tpc, targs, tlog, tfailed, tresult, caller, hreq,
          hget, hresp, total_translations, inst, gather, batch, reqs, pure,
          chunked, audit>>

cacheVars == <<l1, l2, last>>
chainVars == <<tpc, targs, tlog, tfailed, tresult, caller>>
handlerVars == <<hreq, hget, hresp, total_translations>>
configVars == <<hashSeed, enable_l1, redis_client, enable_mock_fallback>>
helperVars == <<pure, chunked, audit>>
extVars == <<inst, gather, batch, reqs, helperVars>>

----------------------------------------------------------------------------
(* Bounds and configuration *)

MaxNow == 2             \* the clock runs 0..MaxNow
MaxMatches == 1         \* candidates in one MyMemory response
MaxTotal == 2           \* cap of the total_translations counter
MaxBatch == 3           \* texts in one translate_batch call
MaxTextLen == 7         \* characters of a text handed to _chunk_text

L1_CACHE_SIZE == 2      \* os.getenv("L1_CACHE_SIZE")
L1_CACHE_TTL == 1       \* os.getenv("L1_CACHE_TTL")
L2_CACHE_TTL == 2       \* os.getenv("L2_CACHE_TTL")

Seeds == {1}

----------------------------------------------------------------------------
(* Strings *)

NONE == <<>>
Some(x) == <<x>>

LowerChar(c) == IF c >= 65 /\ c <= 90 THEN c + 32 ELSE c

\* str.lower()
Lower(s) == [i \in 1..Len(s) |-> LowerChar(s[i])]

IsSpace(c) == c \in {9, 10, 13, 32}

RECURSIVE LStrip(_)
LStrip(s) == IF s # <<>> /\ IsSpace(Head(s)) THEN LStrip(Tail(s)) ELSE s

RECURSIVE RStrip(_)
RStrip(s) ==
    IF s # <<>> /\ IsSpace(s[Len(s)]) THEN RStrip(SubSeq(s, 1, Len(s) - 1))
    ELSE s

\* str.strip()
Strip(s) == RStrip(LStrip(s))

\* texts
TxtHello == <<104, 101, 108, 108, 111>>          \* "hello"
TxtHelloVar == <<32, 72, 101, 108, 108, 111>>    \* " Hello"
TxtXyz == <<120, 121, 122>>                      \* "xyz"
TxtTest123 == <<84, 101, 115, 116, 49, 50, 51>>  \* "Test123"

\* language codes
LangTa == <<116, 97>>                 \* "ta"
LangTaUp == <<84, 65>>                \* "TA"
LangHi == <<104, 105>>                \* "hi"
LangEn == <<101, 110>>                \* "en"
LangAuto == <<97, 117, 116, 111>>     \* "auto"

\* translations
TrTaHello == <<2997, 2979, 2965, 3021, 2965, 2990, 3021>>   \* Tamil script
TrHiHello == <<2344, 2350, 2360, 2381, 2340, 2375>>         \* Devanagari
TrLatin == <<118, 97, 110>>                                 \* "van"

Texts == {TxtHello, TxtHelloVar, TxtXyz}
TargetLangs == {LangTa, LangTaUp, LangHi, LangEn}
SourceLangs == {LangAuto, LangEn, LangTa}

----------------------------------------------------------------------------
(* Result dicts.  A key that is absent from the dict has the value         *)
(* "absent"; cache_level None is "None".                                   *)

AllFailedMsg == "All translation services failed"

MkResult(tt, sl, tl, svc, conf, orig) ==
    [translated_text |-> tt, source_language |-> sl, target_language |-> tl,
     service |-> svc, confidence |-> conf, original_text |-> orig,
     error |-> "absent", cache_level |-> "absent", processing_time_ms |-> FALSE]

\* result.get("error")
HasError(r) == r.error # "absent"

----------------------------------------------------------------------------
(* MultiLevelCache *)

\* str.__hash__ is seeded per process; it is modelled as injective (hash
\* collisions are left out).
PyHash(seed, s) == <<seed, s>>

_generate_cache_key(seed, text, target_language) ==
    [h |-> PyHash(seed, Strip(Lower(text))), lang |-> Lower(target_language)]

\* TTLCache.expire
L1Expire(c, t) == SelectSeq(c, LAMBDA e : t < e.expires)

\* TTLCache.__len__
L1Len(c, t) == Len(L1Expire(c, t))

\* `if self.l1_cache:` -- None when L1 is disabled, else the truth value of
\* the TTLCache, which is that of its __len__
L1Truthy(on, c, t) == on /\ L1Len(c, t) > 0

\* TTLCache.__contains__
L1Contains(c, key, t) ==
    \E i \in 1..Len(c) : c[i].key = key /\ t < c[i].expires

\* TTLCache.__getitem__
L1GetItem(c, key, t) ==
    LET i == CHOOSE j \in 1..Len(c) : c[j].key = key /\ t < c[j].expires
    IN c[i].val

\* TTLCache.__setitem__: expire, make room by popping the head of the links
\* (the least recently used entry; while no lookup has moved an entry it is
\* the one closest to expiry), then link the key at the far end with a
\* fresh expiry
L1SetItem(c, key, val, t) ==
    LET live == L1Expire(c, t)
        present == \E i \in 1..Len(live) : live[i].key = key
        others == SelectSeq(live, LAMBDA e : e.key # key)
        room == IF ~present /\ Len(live) >= L1_CACHE_SIZE THEN Tail(live)
                ELSE others
    IN Append(room, [key |-> key, val |-> val, expires |-> t + L1_CACHE_TTL])

\* the stored dict object is relabelled in place
L1Relabel(c, key, t, level) ==
    [i \in 1..Len(c) |->
        IF c[i].key = key /\ t < c[i].expires
        THEN [c[i] EXCEPT !.val = [c[i].val EXCEPT !.cache_level = level]]
        ELSE c[i]]

\* cached_result["processing_time_ms"] = ... in a handler: get handed out the
\* dict object that L1 stores, so the stored dict gets the item too
L1Timed(c, key, t) ==
    [i \in 1..Len(c) |->
        IF c[i].key = key /\ t < c[i].expires
        THEN [c[i] EXCEPT !.val = [c[i].val EXCEPT !.processing_time_ms = TRUE]]
        ELSE c[i]]

\* redis GET
L2Has(c, key, t) == key \in DOMAIN c /\ t < c[key].expires

\* redis SETEX
L2SetEx(c, key, val, t) ==
    [k \in DOMAIN c \cup {key} |->
        IF k = key THEN [val |-> val, expires |-> t + L2_CACHE_TTL] ELSE c[k]]

L2ReadOutcomes == {"ok", "unreachable", "undecodable"}
L2WriteOutcomes == {"ok", "unreachable"}

\* faulty variant: the Redis error escapes get
CacheGetExceptReraise(c1) ==
    [ret |-> NONE, l1 |-> c1, queriedL2 |-> TRUE, raised |-> TRUE]

\* the except clause of get: the error is printed and get falls through to
\* `return None`
CacheGetExcept(c1) ==
    [ret |-> NONE, l1 |-> c1, queriedL2 |-> TRUE, raised |-> FALSE]

\* faulty variant: a Redis hit labelled as an L1 hit
L2HitLabelL1 == "L1"

\* the label get puts on an entry read from Redis
L2HitLabel == "L2"

\* MultiLevelCache.get: the returned value, the L1 it leaves, whether it
\* queried Redis and whether it raised
CacheGet(seed, on, client, c1, c2, t, text, target_language, l2read) ==
    LET cache_key == _generate_cache_key(seed, text, target_language)
    IN IF L1Truthy(on, c1, t) /\ L1Contains(c1, cache_key, t)
       THEN [ret |-> Some([L1GetItem(c1, cache_key, t)
                              EXCEPT !.cache_level = "L1"]),
             l1 |-> L1Relabel(c1, cache_key, t, "L1"),
             queriedL2 |-> FALSE, raised |-> FALSE]
       ELSE IF ~client
       THEN [ret |-> NONE, l1 |-> c1, queriedL2 |-> FALSE, raised |-> FALSE]
       ELSE IF l2read = "unreachable" THEN CacheGetExcept(c1)
       ELSE IF ~L2Has(c2, cache_key, t)
       THEN [ret |-> NONE, l1 |-> c1, queriedL2 |-> TRUE, raised |-> FALSE]
       ELSE IF l2read = "undecodable" THEN CacheGetExcept(c1)
       ELSE LET result == [c2[cache_key].val EXCEPT !.cache_level = L2HitLabel]
            IN [ret |-> Some(result),
                l1 |-> IF L1Truthy(on, c1, t)
                       THEN L1SetItem(c1, cache_key, result, t)
                       ELSE c1,
                queriedL2 |-> TRUE, raised |-> FALSE]

\* faulty variant: the Redis write sits inside the L1 branch
CacheSetL2Nested(on, client, c1, t) == client /\ L1Truthy(on, c1, t)

\* MultiLevelCache.set, second half: is the Redis write attempted
CacheSetTriesL2(on, client, c1, t) == client

\* the except clause of set: the error is printed, nothing is undone
CacheSetExcept(l1mid, c2) ==
    [l1mid |-> l1mid, l1 |-> l1mid, l2 |-> c2, triedL2 |-> TRUE,
     raised |-> FALSE]

\* MultiLevelCache.set: the two levels it leaves (l1mid is L1 after the L1
\* half), whether it tried Redis and whether it raised
CacheSet(seed, on, client, c1, c2, t, text, target_language, data, l2write) ==
    LET cache_key == _generate_cache_key(seed, text, target_language)
        l1mid == IF L1Truthy(on, c1, t)
                 THEN L1SetItem(c1, cache_key, data, t)
                 ELSE c1
    IN IF ~CacheSetTriesL2(on, client, c1, t)
       THEN [l1mid |-> l1mid, l1 |-> l1mid, l2 |-> c2, triedL2 |-> FALSE,
             raised |-> FALSE]
       ELSE IF l2write # "ok" THEN CacheSetExcept(l1mid, c2)
       ELSE [l1mid |-> l1mid, l1 |-> l1mid,
             l2 |-> L2SetEx(c2, cache_key, data, t),
             triedL2 |-> TRUE, raised |-> FALSE]

----------------------------------------------------------------------------
(* TranslationServices: the providers *)

\* langcodes.Language.make(language=x).language hands back x as given (make
\* builds the object from its attributes without parsing), so the except
\* branch with lower() is never taken for a str
_normalize_language_code(lang_code) == lang_code

\* the excerpt of self.mock_translations the model carries
mock_translations ==
    [p \in {TxtHello} |->
        [l \in {LangHi, LangTa} |-> IF l = LangHi THEN TrHiHello ELSE TrTaHello]]

AnyIn(text, lo, hi) == \E i \in 1..Len(text) : text[i] >= lo /\ text[i] <= hi

is_native_script(text, target_lang) ==
    IF target_lang = LangTa THEN AnyIn(text, 2944, 3071)
    ELSE IF target_lang = LangHi THEN AnyIn(text, 2304, 2431)
    ELSE TRUE

\* what the MyMemory endpoint can answer
Segments == {TxtHelloVar, TxtXyz}
Translations == {<<>>, TrTaHello, TrLatin, TxtTest123}
Qualities == {74, 75, 90, 150}
MatchRatios == {0, 290, 855, 2500}   \* responseData.match in thousandths
BestGuesses == {<<>>, TrTaHello, TrLatin}

Matches == [segment : Segments, translation : Translations, quality : Qualities]

RECURSIVE SeqsUpTo(_, _)
SeqsUpTo(S, n) ==
    IF n = 0 THEN {<<>>}
    ELSE LET shorter == SeqsUpTo(S, n - 1)
         IN shorter \cup {Append(q, x) : q \in {r \in shorter : Len(r) = n - 1}, x \in S}

ResponseDatas == [translatedText : BestGuesses, match : MatchRatios]

MMFailKinds == {"timeout", "network", "http_error", "bad_json", "not_200"}

MMResponses ==
    [kind : MMFailKinds, matches : {<<>>}, responseData : {NONE}]
    \cup [kind : {"ok"}, matches : SeqsUpTo(Matches, MaxMatches),
          responseData : {NONE} \cup {Some(d) : d \in ResponseDatas}]

MIN_QUALITY == 75

\* the condition of the candidate loop
IsMatch(match, input_clean) ==
    /\ Lower(Strip(match.segment)) = input_clean
    /\ Strip(match.translation) # <<>>
    /\ Strip(match.translation) # TxtTest123
    /\ match.quality >= MIN_QUALITY

\* faulty variant: a later candidate of the same quality replaces the one
\* kept so far
RECURSIVE MatchLoopLastWins(_, _, _, _)
MatchLoopLastWins(matches, input_clean, target_lang, acc) ==
    IF matches = <<>> THEN acc
    ELSE LET match == Head(matches)
             match_data == [translated_text |-> Strip(match.translation),
                            confidence |-> match.quality]
             next ==
                IF ~IsMatch(match, input_clean) THEN acc
                ELSE IF is_native_script(Strip(match.translation), target_lang)
                THEN IF acc.native = NONE
                        \/ match.quality >= acc.native[1].confidence
                     THEN [acc EXCEPT !.native = Some(match_data)]
                     ELSE acc
                ELSE IF acc.translit = NONE
                        \/ match.quality >= acc.translit[1].confidence
                     THEN [acc EXCEPT !.translit = Some(match_data)]
                     ELSE acc
         IN MatchLoopLastWins(Tail(matches), input_clean, target_lang, next)

\* the candidate loop: acc = [native, translit], each an optional match_data
RECURSIVE MatchLoop(_, _, _, _)
MatchLoop(matches, input_clean, target_lang, acc) ==
    IF matches = <<>> THEN acc
    ELSE LET match == Head(matches)
             match_data == [translated_text |-> Strip(match.translation),
                            confidence |-> match.quality]
             next ==
                IF ~IsMatch(match, input_clean) THEN acc
                ELSE IF is_native_script(Strip(match.translation), target_lang)
                THEN IF acc.native = NONE
                        \/ match.quality > acc.native[1].confidence
                     THEN [acc EXCEPT !.native = Some(match_data)]
                     ELSE acc
                ELSE IF acc.translit = NONE
                        \/ match.quality > acc.translit[1].confidence
                     THEN [acc EXCEPT !.translit = Some(match_data)]
                     ELSE acc
         IN MatchLoop(Tail(matches), input_clean, target_lang, next)

\* the ratios of up to three decimals, in thousandths and up to 3.0, whose
\* product with 100 in double precision lies below the next whole number
\* (0.29 * 100 is 28.999999999999996)
FloatShort ==
    {290, 570, 580, 1130, 1140, 1150, 1160, 2010, 2030, 2050, 2070, 2260,
     2280, 2300, 2320, 2510, 2530, 2550}

\* int(float(raw_match) * 100), raw_match in thousandths
PercentTruncated(raw_match) ==
    IF raw_match \in FloatShort THEN (raw_match \div 10) - 1
    ELSE raw_match \div 10

\* the responseData fallback; NONE when data["responseData"] raises
BestGuess(responseData) ==
    IF responseData = NONE THEN NONE
    ELSE LET d == responseData[1]
         IN Some([translated_text |-> d.translatedText,
                  confidence |-> IF d.match # 0 THEN PercentTruncated(d.match)
                                 ELSE 75])

\* translate_with_mymemory, given the endpoint's answer
translate_with_mymemory(text, target_language, source_language, resp) ==
    LET target_lang == _normalize_language_code(target_language)
        source_lang == _normalize_language_code(source_language)
        input_clean == Lower(Strip(text))
        acc == MatchLoop(resp.matches, input_clean, target_lang,
                         [native |-> NONE, translit |-> NONE])
        best_match == IF acc.native # NONE THEN acc.native
                      ELSE IF acc.translit # NONE THEN acc.translit
                      ELSE BestGuess(resp.responseData)
    IN IF resp.kind # "ok" THEN NONE
       ELSE IF best_match = NONE THEN NONE
       ELSE Some(MkResult(best_match[1].translated_text, source_lang,
                          target_lang, "mymemory", best_match[1].confidence,
                          text))

supported_languages == {LangEn, LangHi}   \* the codes of the list the model uses

LTFailKinds == {"timeout", "network", "http_error", "bad_json"}
LTTexts == {NONE, Some(<<32>>), Some(TrHiHello)}
LTDetected == {NONE, Some(LangEn)}

LTResponses ==
    [kind : LTFailKinds, translatedText : {NONE}, detected : {NONE}]
    \cup [kind : {"ok"}, translatedText : LTTexts, detected : LTDetected]

LTSourceLang(source_language) ==
    IF source_language = LangAuto THEN LangEn
    ELSE _normalize_language_code(source_language)

\* faulty variant: the source language is not looked up in the list
LTPrecheckAnySource(target_language, source_language) ==
    LET target_lang == _normalize_language_code(target_language)
        source_lang == LTSourceLang(source_language)
    IN IF target_lang \notin supported_languages THEN "unsupported"
       ELSE IF source_lang = target_lang THEN "same"
       ELSE "request"

\* faulty variant: equal source and target are sent to the endpoint
LTPrecheckNoSame(target_language, source_language) ==
    LET target_lang == _normalize_language_code(target_language)
        source_lang == LTSourceLang(source_language)
    IN IF target_lang \notin supported_languages THEN "unsupported"
       ELSE IF source_lang \notin supported_languages THEN "unsupported"
       ELSE "request"

\* translate_with_libretranslate up to its request: "unsupported", "same"
\* or "request"
LTPrecheck(target_language, source_language) ==
    LET target_lang == _normalize_language_code(target_language)
        source_lang == LTSourceLang(source_language)
    IN IF target_lang \notin supported_languages THEN "unsupported"
       ELSE IF source_lang \notin supported_languages THEN "unsupported"
       ELSE IF source_lang = target_lang THEN "same"
       ELSE "request"

\* translate_with_libretranslate, given the endpoint's answer (which is
\* looked at only when the request is made)
translate_with_libretranslate(text, target_language, source_language, resp) ==
    LET target_lang == _normalize_language_code(target_language)
        source_lang == LTSourceLang(source_language)
        pre == LTPrecheck(target_language, source_language)
    IN IF pre = "unsupported" THEN NONE
       ELSE IF pre = "same"
       THEN Some(MkResult(text, source_lang, target_lang, "libretranslate",
                          100, text))
       ELSE IF resp.kind # "ok" THEN NONE
       ELSE IF resp.translatedText # NONE
               /\ Strip(resp.translatedText[1]) # <<>>
       THEN Some(MkResult(resp.translatedText[1],
                          IF resp.detected # NONE THEN resp.detected[1]
                          ELSE source_lang,
                          target_lang, "libretranslate", 80, text))
       ELSE NONE

\* faulty variant: the text is looked up as given
translate_with_mockExact(enabled, text, target_language) ==
    LET target_lang == _normalize_language_code(target_language)
    IN IF ~enabled THEN NONE
       ELSE IF text \in DOMAIN mock_translations
               /\ target_lang \in DOMAIN mock_translations[text]
       THEN Some(MkResult(mock_translations[text][target_lang],
                          LangAuto, target_lang, "mock_indian", 60, text))
       ELSE NONE

translate_with_mock(enabled, text, target_language) ==
    LET normalized_text == Strip(Lower(text))
        target_lang == _normalize_language_code(target_language)
    IN IF ~enabled THEN NONE
       ELSE IF normalized_text \in DOMAIN mock_translations
               /\ target_lang \in DOMAIN mock_translations[normalized_text]
       THEN Some(MkResult(mock_translations[normalized_text][target_lang],
                          LangAuto, target_lang, "mock_indian", 60, text))
       ELSE NONE

\* faulty variant: the error key is left out
DegradedResultNoError(text, source_language, target_language) ==
    MkResult(text, source_language, target_language, "none", 0, text)

\* the dict translate returns when all services failed
DegradedResult(text, source_language, target_language) ==
    [MkResult(text, source_language, target_language, "none", 0, text)
        EXCEPT !.error = AllFailedMsg]

----------------------------------------------------------------------------
(* TranslationServices.translate: the cascade.  The chain operators give   *)
(* the call's position, the providers invoked, the providers whose outcome *)
(* was a failure, and the return value once the call is over.              *)

\* Observers for tfailed: the outcomes that count as a provider's failure
\* (timeout, network failure, non-success status, empty or invalid payload,
\* unsupported language, phrase not in the dictionary), told from the
\* endpoint's answer and not from what translate made of it
MMOutcomeFailed(text, resp) ==
    \/ resp.kind # "ok"
    \/ /\ \A i \in 1..Len(resp.matches) :
              ~IsMatch(resp.matches[i], Lower(Strip(text)))
       /\ \/ resp.responseData = NONE
          \/ Strip(resp.responseData[1].translatedText) = <<>>

LTOutcomeFailed(pre, resp) ==
    \/ pre = "unsupported"
    \/ /\ pre = "request"
       /\ \/ resp.kind # "ok"
          \/ resp.translatedText = NONE
          \/ Strip(resp.translatedText[1]) = <<>>

\* faulty variant: translate ends without a return statement
TranslateFallthroughNone(a) == NONE

\* the last statement of translate
TranslateFallthrough(a) ==
    Some(DegradedResult(a.text, a.source_language, a.target_language))

\* translate from the mock dictionary on
ChainFromMock(mock_on, a, log, failed) ==
    LET result == translate_with_mock(mock_on, a.text, a.target_language)
    IN [pc |-> "done",
        log |-> Append(log, "mock"),
        failed |-> IF result = NONE THEN failed \cup {"mock"} ELSE failed,
        result |-> IF result # NONE THEN result ELSE TranslateFallthrough(a)]

\* faulty variant: a failed secondary is tried a second time
ChainAfterLibreRetries(mock_on, a, log, failed, resp) ==
    LET result == translate_with_libretranslate(a.text, a.target_language,
                                                a.source_language, resp)
        failed2 == failed \cup {"libretranslate"}
    IN IF result # NONE
       THEN [pc |-> "done", log |-> log, failed |-> failed, result |-> result]
       ELSE IF Len(log) < 3
       THEN [pc |-> "libretranslate", log |-> Append(log, "libretranslate"),
             failed |-> failed2, result |-> NONE]
       ELSE ChainFromMock(mock_on, a, log, failed2)

\* translate once translate_with_libretranslate has returned
ChainAfterLibre(mock_on, a, log, failed, resp) ==
    LET pre == LTPrecheck(a.target_language, a.source_language)
        result == translate_with_libretranslate(a.text, a.target_language,
                                                a.source_language, resp)
        failed2 == IF LTOutcomeFailed(pre, resp)
                   THEN failed \cup {"libretranslate"} ELSE failed
    IN IF result # NONE
       THEN [pc |-> "done", log |-> log, failed |-> failed2, result |-> result]
       ELSE ChainFromMock(mock_on, a, log, failed2)

NoLTResponse == [kind |-> "ok", translatedText |-> NONE, detected |-> NONE]

\* translate from the libretranslate call on: it either waits for the
\* endpoint or goes on without a request
ChainFromLibre(mock_on, a, log, failed) ==
    LET log2 == Append(log, "libretranslate")
    IN IF LTPrecheck(a.target_language, a.source_language) = "request"
       THEN [pc |-> "libretranslate", log |-> log2, failed |-> failed,
             result |-> NONE]
       ELSE ChainAfterLibre(mock_on, a, log2, failed, NoLTResponse)

\* faulty variant: the result of the primary is not returned
ChainAfterMyMemoryGoesOn(mock_on, a, log, failed, resp) ==
    ChainFromLibre(mock_on, a, log,
                   IF MMOutcomeFailed(a.text, resp)
                   THEN failed \cup {"mymemory"} ELSE failed)

\* translate once translate_with_mymemory has returned
ChainAfterMyMemory(mock_on, a, log, failed, resp) ==
    LET result == translate_with_mymemory(a.text, a.target_language,
                                          a.source_language, resp)
        failed2 == IF MMOutcomeFailed(a.text, resp)
                   THEN failed \cup {"mymemory"} ELSE failed
    IN IF result # NONE
       THEN [pc |-> "done", log |-> log, failed |-> failed2, result |-> result]
       ELSE ChainFromLibre(mock_on, a, log, failed2)

----------------------------------------------------------------------------
(* main.translate_text *)

\* TranslationRequest.validate_text
validate_text(v) == Strip(v)

\* TranslationRequest.validate_language_codes
validate_language_codes(v) == IF v = LangAuto THEN v ELSE Strip(Lower(v))

\* TranslationResponse(**result): the Field(ge=0, le=100) check
ResponseValid(r) == r.confidence >= 0 /\ r.confidence <= 100

\* the response the handler ends with
Respond(r) ==
    IF ResponseValid(r) THEN [status |-> 200, body |-> Some(r)]
    ELSE [status |-> 500, body |-> NONE]

\* the call the handler makes: translate(text, target_language,
\* source_language) against the signature (text, source_language,
\* target_language)
HandlerTranslateArgs(req) ==
    [text |-> req.text, source_language |-> req.target_language,
     target_language |-> req.source_language]

\* faulty variant: the cache keeps the dict object the handler goes on to
\* mark, so the stored entry gets processing_time_ms and cache_level too
HandlerFinishStoresMarked(req, result, l2write) ==
    LET out == [result EXCEPT !.processing_time_ms = TRUE,
                              !.cache_level = "None"]
        st == CacheSet(hashSeed, enable_l1, redis_client, l1, l2, now,
                       req.text, req.target_language, out, l2write)
    IN [l1 |-> st.l1, l2 |-> st.l2, total |-> total_translations + 1,
        resp |-> Respond(out)]

\* faulty variant: the increment of total_translations is lost
HandlerFinishUncounted(req, result, l2write) ==
    LET st == CacheSet(hashSeed, enable_l1, redis_client, l1, l2, now,
                       req.text, req.target_language, result, l2write)
        out == [result EXCEPT !.processing_time_ms = TRUE,
                              !.cache_level = "None"]
    IN [l1 |-> st.l1, l2 |-> st.l2, total |-> total_translations,
        resp |-> Respond(out)]

\* the handler from the return of translate to its response
HandlerFinish(req, result, l2write) ==
    LET st == CacheSet(hashSeed, enable_l1, redis_client, l1, l2, now,
                       req.text, req.target_language, result, l2write)
        out == [result EXCEPT !.processing_time_ms = TRUE,
                              !.cache_level = "None"]
    IN [l1 |-> st.l1, l2 |-> st.l2, total |-> total_translations + 1,
        resp |-> Respond(out)]

----------------------------------------------------------------------------
(* Initial state *)

NoCall ==
    [op |-> "none", n |-> 0, text |-> <<>>, lang |-> <<>>,
     data |-> NONE, prevSet |-> NONE, prevL2 |-> FALSE, ret |-> NONE,
     io |-> "ok",
     hadL1 |-> FALSE, hadL2 |-> FALSE, usedL2 |-> FALSE, raised |-> FALSE,
     l1mid |-> <<>>]

NoArgs == [text |-> <<>>, source_language |-> <<>>, target_language |-> <<>>]
NoRequest == [text |-> <<>>, target_language |-> <<>>, source_language |-> <<>>]
NoGet ==
    [ret |-> NONE, io |-> "ok", hadL2 |-> FALSE, queriedL2 |-> FALSE,
     raised |-> FALSE]
NoResponse == [status |-> 0, body |-> NONE]

\* no service process has started
NoInst == [seed |-> <<0, 0>>, l1 |-> <<<<>>, <<>>>>, last |-> [op |-> "none"]]

\* translate_batch has not been called
NoGather == [pc |-> "idle"]

\* no /translate/batch request has come in
NoBatch == [pc |-> "idle"]

\* no /translate request is being handled concurrently
NoReqs == <<[pc |-> "idle"], [pc |-> "idle"]>>

\* no helper has been called on its own
NoPure == [op |-> "none"]

\* _translate_single_chunk has not been called
NoChunked == [pc |-> "idle"]

\* no task has been handed to BackgroundTasks; the translations table is
\* empty
NoAudit == [tasks |-> <<>>, rows |-> <<>>]

\* A request comes with a BackgroundTasks object of its own.  audit.tasks
\* holds the tasks of the requests in hand, each with the client it belongs
\* to: 0 for the requests handled one after the other, a slot for the
\* concurrent ones.  The tasks of a client's earlier request have left with
\* its response.
\* (faulty variant: the tasks of the earlier request stay scheduled)
NewBackgroundTasksKept(a, client) == a

NewBackgroundTasks(a, client) ==
    [a EXCEPT !.tasks = SelectSeq(@, LAMBDA t : t.client # client)]

\* background_tasks.add_task(store_translation_in_db, text, translation_result)
AddTask(a, client, text, translation_result) ==
    [a EXCEPT !.tasks = Append(@, [client |-> client, text |-> text,
                                   result |-> translation_result,
                                   pc |-> "scheduled", existing |-> FALSE])]

Init ==
    /\ hashSeed \in Seeds
    /\ enable_l1 \in BOOLEAN
    /\ redis_client \in BOOLEAN
    /\ enable_mock_fallback \in BOOLEAN
    /\ l1 = <<>>
    /\ l2 = <<>>
    /\ now = 0
    /\ last = NoCall
    /\ tpc = "idle"
    /\ targs = NoArgs
    /\ tlog = <<>>
    /\ tfailed = {}
    /\ tresult = NONE
    /\ caller = "direct"
    /\ hreq = NoRequest
    /\ hget = NoGet
    /\ hresp = NoResponse
    /\ total_translations = 0
    /\ inst = NoInst
    /\ gather = NoGather
    /\ batch = NoBatch
    /\ reqs = NoReqs
    /\ pure = NoPure
    /\ chunked = NoChunked
    /\ audit = NoAudit

\* time passes; the record of the last cache call is of the current instant
Tick ==
    /\ now < MaxNow
    /\ now' = now + 1
    /\ last' = [NoCall EXCEPT !.n = last.n]
    /\ UNCHANGED <<configVars, l1, l2, chainVars, handlerVars, extVars>>

----------------------------------------------------------------------------
(* The cache called through its API: cache_manager.set / cache_manager.get *)

ApiTexts == {TxtHelloVar, TxtHello, TxtXyz}
ApiLangs == {LangTa, LangTaUp}
ApiEntries ==
    {MkResult(TrTaHello, LangAuto, LangTa, "mock_indian", 60, TxtHello),
     MkResult(TrLatin, LangEn, LangTa, "mymemory", 90, TxtHello)}

ApiSet(text, lang, data, l2write) ==
    LET key == _generate_cache_key(hashSeed, text, lang)
        st == CacheSet(hashSeed, enable_l1, redis_client, l1, l2, now,
                       text, lang, data, l2write)
    IN /\ tpc = "idle"
       /\ l1' = st.l1
       /\ l2' = st.l2
       /\ last' = [op |-> "set", n |-> 1 - last.n, text |-> text,
                   lang |-> lang, data |-> Some(data), prevSet |-> NONE,
                   prevL2 |-> FALSE, ret |-> NONE, io |-> l2write,
                   hadL1 |-> L1Contains(l1, key, now),
                   hadL2 |-> L2Has(l2, key, now),
                   usedL2 |-> st.triedL2, raised |-> st.raised,
                   l1mid |-> st.l1mid]
       /\ UNCHANGED <<configVars, now, chainVars, handlerVars, extVars>>

ApiGet(text, lang, l2read) ==
    LET key == _generate_cache_key(hashSeed, text, lang)
        g == CacheGet(hashSeed, enable_l1, redis_client, l1, l2, now,
                      text, lang, l2read)
    IN /\ tpc = "idle"
       /\ l1' = g.l1
       /\ l2' = l2
       /\ last' = [op |-> "get", n |-> 1 - last.n, text |-> text,
                   lang |-> lang, data |-> NONE,
                   prevSet |-> IF last.op = "set" /\ last.text = text
                                  /\ last.lang = lang
                               THEN last.data ELSE NONE,
                   prevL2 |-> /\ last.op = "get" /\ last.text = text
                              /\ last.lang = lang /\ ~last.hadL1
                              /\ last.ret # NONE,
                   ret |-> g.ret, io |-> l2read,
                   hadL1 |-> L1Contains(l1, key, now),
                   hadL2 |-> L2Has(l2, key, now),
                   usedL2 |-> g.queriedL2, raised |-> g.raised,
                   l1mid |-> g.l1]
       /\ UNCHANGED <<configVars, now, chainVars, handlerVars, extVars>>

NextCache ==
    \/ \E text \in ApiTexts, lang \in ApiLangs, data \in ApiEntries,
          w \in L2WriteOutcomes : ApiSet(text, lang, data, w)
    \/ \E text \in ApiTexts, lang \in ApiLangs, r \in L2ReadOutcomes :
          ApiGet(text, lang, r)
    \/ Tick

\* the dictionary switch plays no part in the cache
InitCache == Init /\ enable_mock_fallback

SpecCache == InitCache /\ [][NextCache]_vars

----------------------------------------------------------------------------
(* Two service processes, each with its own hash seed and its own L1, on   *)
(* one Redis keyspace.  The calls are made within one instant of the       *)
(* clock.                                                                  *)

Procs == {1, 2}
InstSeeds == {1, 2}      \* a started process has a seed other than 0
InstTexts == {TxtHelloVar, TxtXyz}
InstLangs == {LangTa}

\* the process starts: the interpreter draws its hash seed and the module
\* constructs its MultiLevelCache
InstStart(p, seed) ==
    /\ inst.seed[p] = 0
    /\ inst' = [inst EXCEPT !.seed[p] = seed, !.l1[p] = <<>>]
    /\ UNCHANGED <<configVars, cacheVars, now, chainVars, handlerVars,
                   gather, batch, reqs, helperVars>>

\* cache_manager.set in process p
InstSet(p, text, lang, data, l2write) ==
    LET st == CacheSet(inst.seed[p], enable_l1, redis_client, inst.l1[p], l2,
                       now, text, lang, data, l2write)
    IN /\ inst.seed[p] # 0
       /\ l2' = st.l2
       /\ inst' = [inst EXCEPT
                      !.l1[p] = st.l1,
                      !.last = [op |-> "set", p |-> p, text |-> text,
                                lang |-> lang, data |-> Some(data),
                                io |-> l2write, ret |-> NONE, prev |-> NONE,
                                prevP |-> p]]
       /\ UNCHANGED <<configVars, l1, last, now, chainVars, handlerVars,
                      gather, batch, reqs, helperVars>>

\* cache_manager.get in process p; prev is what the call just before wrote
\* to Redis for the same text and language, prevP the process that did
InstGet(p, text, lang, l2read) ==
    LET g == CacheGet(inst.seed[p], enable_l1, redis_client, inst.l1[p], l2,
                      now, text, lang, l2read)
        follows == /\ inst.last.op = "set"
                   /\ inst.last.text = text
                   /\ inst.last.lang = lang
                   /\ inst.last.io = "ok"
    IN /\ inst.seed[p] # 0
       /\ l2' = l2
       /\ inst' = [inst EXCEPT
                      !.l1[p] = g.l1,
                      !.last = [op |-> "get", p |-> p, text |-> text,
                                lang |-> lang, data |-> NONE,
                                io |-> l2read, ret |-> g.ret,
                                prev |-> IF follows THEN inst.last.data
                                         ELSE NONE,
                                prevP |-> IF follows THEN inst.last.p ELSE p]]
       /\ UNCHANGED <<configVars, l1, last, now, chainVars, handlerVars,
                      gather, batch, reqs, helperVars>>

NextShared ==
    \/ \E p \in Procs, seed \in InstSeeds : InstStart(p, seed)
    \/ \E p \in Procs, text \in InstTexts, lang \in InstLangs,
          data \in ApiEntries, w \in L2WriteOutcomes :
          InstSet(p, text, lang, data, w)
    \/ \E p \in Procs, text \in InstTexts, lang \in InstLangs,
          r \in L2ReadOutcomes : InstGet(p, text, lang, r)

\* the processes are connected to Redis
InitShared == Init /\ enable_mock_fallback /\ redis_client

SpecShared == InitShared /\ [][NextShared]_vars

----------------------------------------------------------------------------
(* translation_service.translate called directly, and the provider         *)
(* endpoints answering                                                     *)

TranslateCall(text, source_language, target_language) ==
    /\ tpc \in {"idle", "done"}
    /\ hresp.status # 0 \/ hreq = NoRequest
    /\ caller' = "direct"
    /\ targs' = [text |-> text, source_language |-> source_language,
                 target_language |-> target_language]
    /\ tpc' = "mymemory"
    /\ tlog' = <<"mymemory">>
    /\ tfailed' = {}
    /\ tresult' = NONE
    /\ UNCHANGED <<configVars, cacheVars, now, handlerVars, extVars>>

\* the responses the endpoints give to a request of the handler
MMResponsesSmall ==
    {[kind |-> "timeout", matches |-> <<>>, responseData |-> NONE],
     [kind |-> "ok", matches |-> <<>>,
      responseData |-> Some([translatedText |-> <<>>, match |-> 0])],
     [kind |-> "ok", matches |-> <<>>,
      responseData |-> Some([translatedText |-> TrLatin, match |-> 2500])],
     [kind |-> "ok",
      matches |-> <<[segment |-> TxtHelloVar, translation |-> TrTaHello,
                     quality |-> 90]>>,
      responseData |-> Some([translatedText |-> TrTaHello, match |-> 850])]}

LTResponsesSmall ==
    {[kind |-> "timeout", translatedText |-> NONE, detected |-> NONE],
     [kind |-> "ok", translatedText |-> Some(TrHiHello), detected |-> NONE]}

\* the rest of a step in which translate returns (c.pc = "done") or goes on
\* waiting
ChainStep(c, l2write) ==
    /\ tpc' = c.pc
    /\ tlog' = c.log
    /\ tfailed' = c.failed
    /\ tresult' = c.result
    /\ UNCHANGED <<configVars, now, last, targs, caller, hreq, hget,
                   inst, gather, batch, reqs, pure, chunked>>
    /\ IF caller = "single" /\ c.pc = "done"
       THEN LET f == HandlerFinish(hreq, c.result[1], l2write)
            IN /\ l1' = f.l1
               /\ l2' = f.l2
               /\ total_translations' = f.total
               /\ hresp' = f.resp
               /\ audit' = AddTask(audit, 0, hreq.text, c.result[1])
       ELSE UNCHANGED <<l1, l2, total_translations, hresp, audit>>

MyMemoryReturns ==
    /\ tpc = "mymemory"
    /\ \/ /\ caller = "direct"
          /\ \E resp \in MMResponses :
                ChainStep(ChainAfterMyMemory(enable_mock_fallback, targs, tlog,
                                             tfailed, resp), "ok")
       \/ /\ caller = "single"
          /\ \E resp \in MMResponsesSmall, w \in L2WriteOutcomes :
                ChainStep(ChainAfterMyMemory(enable_mock_fallback, targs, tlog,
                                             tfailed, resp), w)

LibreReturns ==
    /\ tpc = "libretranslate"
    /\ \/ /\ caller = "direct"
          /\ \E resp \in LTResponses :
                ChainStep(ChainAfterLibre(enable_mock_fallback, targs, tlog,
                                          tfailed, resp), "ok")
       \/ /\ caller = "single"
          /\ \E resp \in LTResponsesSmall, w \in L2WriteOutcomes :
                ChainStep(ChainAfterLibre(enable_mock_fallback, targs, tlog,
                                          tfailed, resp), w)

NextTranslate ==
    \/ \E text \in Texts, sl \in SourceLangs, tl \in TargetLangs :
          TranslateCall(text, sl, tl)
    \/ MyMemoryReturns
    \/ LibreReturns

\* the cache switches play no part in translate
InitTranslate == Init /\ enable_l1 /\ redis_client

SpecTranslate == InitTranslate /\ [][NextTranslate]_vars

\* The same call with the endpoints answering from the small sets.  Every
\* request to an endpoint is made with timeout=self.request_timeout, so the
\* awaited call returns: with a response or with a timeout.
MyMemoryAnswers ==
    /\ tpc = "mymemory"
    /\ caller = "direct"
    /\ \E resp \in MMResponsesSmall :
          ChainStep(ChainAfterMyMemory(enable_mock_fallback, targs, tlog,
                                       tfailed, resp), "ok")

LibreAnswers ==
    /\ tpc = "libretranslate"
    /\ caller = "direct"
    /\ \E resp \in LTResponsesSmall :
          ChainStep(ChainAfterLibre(enable_mock_fallback, targs, tlog,
                                    tfailed, resp), "ok")

NextTranslateLive ==
    \/ \E text \in Texts, sl \in SourceLangs, tl \in TargetLangs :
          TranslateCall(text, sl, tl)
    \/ MyMemoryAnswers
    \/ LibreAnswers

SpecTranslateLive ==
    /\ InitTranslate
    /\ [][NextTranslateLive]_vars
    /\ WF_vars(MyMemoryAnswers)
    /\ WF_vars(LibreAnswers)

----------------------------------------------------------------------------
(* POST /translate.  A request is handled in steps that end where the      *)
(* handler awaits a provider endpoint; get and set do not suspend.  The    *)
(* requests are served within one instant of the clock, so no entry        *)
(* expires between them.                                                   *)

RawTexts == {TxtHelloVar}
RawTargets == {LangTaUp, LangHi}
RawSources == {LangAuto, LangEn}

HandleTranslate(rawText, rawTarget, rawSource, l2read) ==
    LET req == [text |-> validate_text(rawText),
                target_language |-> validate_language_codes(rawTarget),
                source_language |-> validate_language_codes(rawSource)]
        g == CacheGet(hashSeed, enable_l1, redis_client, l1, l2, now,
                      req.text, req.target_language, l2read)
    IN /\ tpc \in {"idle", "done"}
       /\ g.ret # NONE \/ total_translations < MaxTotal
       /\ hreq' = req
       /\ hget' = [ret |-> g.ret, io |-> l2read,
                   hadL2 |-> L2Has(l2, _generate_cache_key(hashSeed, req.text,
                                                          req.target_language),
                                   now),
                   queriedL2 |-> g.queriedL2, raised |-> g.raised]
       /\ caller' = "single"
       /\ tfailed' = {}
       /\ tresult' = NONE
       /\ l2' = l2
       /\ audit' = NewBackgroundTasks(audit, 0)
       /\ UNCHANGED <<configVars, now, last, total_translations,
                      inst, gather, batch, reqs, pure, chunked>>
       /\ IF g.raised
          THEN /\ hresp' = [status |-> 500, body |-> NONE]
               /\ l1' = g.l1
               /\ tpc' = "idle"
               /\ tlog' = <<>>
               /\ targs' = NoArgs
          ELSE IF g.ret # NONE
          THEN /\ hresp' = Respond([g.ret[1] EXCEPT !.processing_time_ms = TRUE])
               /\ l1' = L1Timed(g.l1,
                                _generate_cache_key(hashSeed, req.text,
                                                    req.target_language), now)
               /\ tpc' = "idle"
               /\ tlog' = <<>>
               /\ targs' = NoArgs
          ELSE /\ hresp' = NoResponse
               /\ l1' = g.l1
               /\ tpc' = "mymemory"
               /\ tlog' = <<"mymemory">>
               /\ targs' = HandlerTranslateArgs(req)

Next ==
    \/ \E rawText \in RawTexts, rawTarget \in RawTargets,
          rawSource \in RawSources, r \in L2ReadOutcomes :
          HandleTranslate(rawText, rawTarget, rawSource, r)
    \/ MyMemoryReturns
    \/ LibreReturns

Spec == Init /\ [][Next]_vars

----------------------------------------------------------------------------
(* TranslationServices.translate_batch: one task per text, each inside     *)
(* `async with semaphore`, gathered.  The application does not call it     *)
(* (the batch endpoint has its own loop), so it is exercised on its own.   *)

GatherTexts == {TxtHello, TxtXyz}
GatherTargets == {LangHi}
GatherSources == {LangAuto}
WorkerCounts == {1, 2}          \* os.getenv("PARALLEL_WORKERS"), at least 1

\* the answers of the endpoints to the requests of the tasks
GatherMMResponses ==
    {[kind |-> "timeout", matches |-> <<>>, responseData |-> NONE],
     [kind |-> "ok", matches |-> <<>>,
      responseData |-> Some([translatedText |-> TrLatin, match |-> 850])]}

\* faulty variant: the semaphore lets every task through
SemaphoreNeverLocked(value) == FALSE

\* asyncio.Semaphore.locked
SemaphoreLocked(value) == value = 0

\* faulty variant: leaving the `async with` block does not give the slot back
SemaphoreKeeps(value) == value

\* asyncio.Semaphore.release
SemaphoreRelease(value) == value + 1

\* faulty variant: the results of the texts that failed are left out
GatherResultsDropFailed(tasks) ==
    SelectSeq([i \in 1..Len(tasks) |-> tasks[i].result[1]],
              LAMBDA r : ~HasError(r))

\* asyncio.gather: the results of the tasks, in the order of the tasks
GatherResults(tasks) == [i \in 1..Len(tasks) |-> tasks[i].result[1]]

\* the tasks that hold a slot: they are inside self.translate
InFlight(tasks) ==
    {i \in 1..Len(tasks) : tasks[i].pc \in {"mymemory", "libretranslate"}}

Queued(tasks) == {i \in 1..Len(tasks) : tasks[i].pc = "queued"}

\* the arguments of the translate call of task i
TaskArgs(i) ==
    [text |-> gather.texts[i], source_language |-> gather.source_language,
     target_language |-> gather.target_language]

\* translate_batch is called: the semaphore and the tasks are created and
\* gather is awaited.  A call carries nothing over to the next one, so one
\* call is followed.
BatchCall(texts, target_language, source_language, max_workers) ==
    /\ gather.pc = "idle"
    /\ batch = NoBatch
    /\ gather' = [pc |-> "running", texts |-> texts,
                  target_language |-> target_language,
                  source_language |-> source_language,
                  max_workers |-> max_workers, value |-> max_workers,
                  tasks |-> [i \in 1..Len(texts) |->
                               [pc |-> "queued", log |-> <<>>, failed |-> {},
                                result |-> NONE]],
                  results |-> NONE]
    /\ UNCHANGED <<configVars, cacheVars, now, chainVars, handlerVars,
                   inst, batch, reqs, helperVars>>

\* the task that waits longest enters `async with semaphore` and calls
\* translate, which runs up to its request to MyMemory
TaskAcquire(i) ==
    /\ gather.pc = "running"
    /\ i \in Queued(gather.tasks)
    /\ \A j \in Queued(gather.tasks) : i <= j
    /\ ~SemaphoreLocked(gather.value)
    /\ gather' = [gather EXCEPT !.value = @ - 1,
                                !.tasks[i].pc = "mymemory",
                                !.tasks[i].log = <<"mymemory">>]
    /\ UNCHANGED <<configVars, cacheVars, now, chainVars, handlerVars,
                   inst, batch, reqs, helperVars>>

\* task i goes on to c; when its translate call returns it leaves the
\* `async with` block
TaskStep(i, c) ==
    /\ gather' = [gather EXCEPT
                     !.tasks[i] = [pc |-> c.pc, log |-> c.log,
                                   failed |-> c.failed, result |-> c.result],
                     !.value = IF c.pc = "done" THEN SemaphoreRelease(@)
                               ELSE @]
    /\ UNCHANGED <<configVars, cacheVars, now, chainVars, handlerVars,
                   inst, batch, reqs, helperVars>>

TaskMyMemoryReturns(i) ==
    /\ gather.pc = "running"
    /\ i \in 1..Len(gather.tasks)
    /\ gather.tasks[i].pc = "mymemory"
    /\ \E resp \in GatherMMResponses :
          TaskStep(i, ChainAfterMyMemory(enable_mock_fallback, TaskArgs(i),
                                         gather.tasks[i].log,
                                         gather.tasks[i].failed, resp))

TaskLibreReturns(i) ==
    /\ gather.pc = "running"
    /\ i \in 1..Len(gather.tasks)
    /\ gather.tasks[i].pc = "libretranslate"
    /\ \E resp \in LTResponsesSmall :
          TaskStep(i, ChainAfterLibre(enable_mock_fallback, TaskArgs(i),
                                      gather.tasks[i].log,
                                      gather.tasks[i].failed, resp))

\* all the tasks are over: gather hands back their results and
\* translate_batch returns them
GatherReturns ==
    /\ gather.pc = "running"
    /\ \A i \in 1..Len(gather.tasks) : gather.tasks[i].pc = "done"
    /\ gather' = [gather EXCEPT !.pc = "returned",
                                !.results = Some(GatherResults(gather.tasks))]
    /\ UNCHANGED <<configVars, cacheVars, now, chainVars, handlerVars,
                   inst, batch, reqs, helperVars>>

----------------------------------------------------------------------------
(* POST /translate/batch: the handler's own loop over request.texts.  A    *)
(* step runs from one awaited provider request to the next.                *)

RawBatchTexts == {TxtHelloVar, TxtXyz}
RawBatchTargets == {LangHi}
RawBatchSources == {LangAuto, LangEn}

\* BatchTranslationRequest.validate_texts
validate_texts(v) == [i \in 1..Len(v) |-> Strip(v[i])]

\* faulty variant: a cache hit is not counted
BatchCountLost(n) == n

\* cache_hits += 1, api_calls += 1
BatchCount(n) == n + 1

\* the loop from text b.i on, up to the first text that is not in the
\* cache or to the end of the list; reads[i] is what Redis does when text i
\* is looked up
RECURSIVE BatchLoop(_, _, _, _)
BatchLoop(b, c1, c2, reads) ==
    IF b.i > Len(b.texts) THEN [b |-> b, l1 |-> c1, miss |-> FALSE,
                                raised |-> FALSE]
    ELSE LET g == CacheGet(hashSeed, enable_l1, redis_client, c1, c2, now,
                           b.texts[b.i], b.target_language, reads[b.i])
         IN IF g.raised
            THEN [b |-> b, l1 |-> g.l1, miss |-> FALSE, raised |-> TRUE]
            ELSE IF g.ret = NONE
            THEN [b |-> b, l1 |-> g.l1, miss |-> TRUE, raised |-> FALSE]
            ELSE BatchLoop(
                    [b EXCEPT !.results =
                                 Append(@, [g.ret[1] EXCEPT
                                               !.processing_time_ms = TRUE]),
                              !.cache_hits = BatchCount(@),
                              !.i = @ + 1],
                    L1Timed(g.l1, _generate_cache_key(hashSeed, b.texts[b.i],
                                                      b.target_language), now),
                    c2, reads)

SuccessfulCount(results) ==
    Cardinality({i \in 1..Len(results) : ~HasError(results[i])})

\* MinimalTranslationResponse
MinimalResult(r) ==
    [translated_text |-> r.translated_text,
     source_language |-> r.source_language,
     target_language |-> r.target_language]

\* faulty variant: the minimal list keeps the results that carry an error
BatchResponseKeepsFailed(b) ==
    LET results == b.results
        successful_count == SuccessfulCount(results)
    IN IF b.minimal
       THEN [status |-> 200,
             results |-> [i \in 1..Len(results) |-> MinimalResult(results[i])],
             total_count |-> Some(Len(results)),
             successful_count |-> Some(successful_count),
             failed_count |-> Some(Len(results) - successful_count),
             cache_hits |-> NONE, api_calls |-> NONE]
       ELSE [status |-> 500, results |-> <<>>, total_count |-> NONE,
             successful_count |-> NONE, failed_count |-> NONE,
             cache_hits |-> NONE, api_calls |-> NONE]

\* the response of the batch handler, from the statistics on; the except
\* clause turns a validation error into status 500
BatchResponse(b) ==
    LET results == b.results
        successful_count == SuccessfulCount(results)
        failed_count == Len(results) - successful_count
        kept == SelectSeq(results, LAMBDA r : ~HasError(r))
    IN IF b.minimal
       THEN [status |-> 200,
             results |-> [i \in 1..Len(kept) |-> MinimalResult(kept[i])],
             total_count |-> Some(Len(results)),
             successful_count |-> Some(successful_count),
             failed_count |-> Some(failed_count),
             cache_hits |-> NONE, api_calls |-> NONE]
       ELSE IF \A i \in 1..Len(results) : ResponseValid(results[i])
       THEN [status |-> 200, results |-> results,
             total_count |-> Some(Len(results)),
             successful_count |-> Some(successful_count),
             failed_count |-> Some(failed_count),
             cache_hits |-> Some(b.cache_hits),
             api_calls |-> Some(b.api_calls)]
       ELSE [status |-> 500, results |-> <<>>, total_count |-> NONE,
             successful_count |-> NONE, failed_count |-> NONE,
             cache_hits |-> NONE, api_calls |-> NONE]

BatchError ==
    [status |-> 500, results |-> <<>>, total_count |-> NONE,
     successful_count |-> NONE, failed_count |-> NONE,
     cache_hits |-> NONE, api_calls |-> NONE]

\* the handler after its loop has stopped (r): it answers, or it calls
\* translate for text r.b.i, which runs up to its request to MyMemory;
\* fin is the finished translate call the handler comes from, if any
BatchSettle(r, fin) ==
    /\ l1' = r.l1
    /\ caller' = "batch"
    /\ IF r.raised
       THEN /\ batch' = [r.b EXCEPT !.pc = "responded", !.resp = BatchError]
            /\ total_translations' = total_translations
            /\ tpc' = fin.pc
            /\ tlog' = fin.log
            /\ tfailed' = fin.failed
            /\ tresult' = fin.result
            /\ targs' = targs
       ELSE IF r.miss
       THEN /\ batch' = [r.b EXCEPT !.started = @ + 1]
            /\ total_translations' = total_translations
            /\ tpc' = "mymemory"
            /\ tlog' = <<"mymemory">>
            /\ tfailed' = {}
            /\ tresult' = NONE
            /\ targs' = HandlerTranslateArgs(
                            [text |-> r.b.texts[r.b.i],
                             target_language |-> r.b.target_language,
                             source_language |-> r.b.source_language])
       ELSE /\ batch' = [r.b EXCEPT !.pc = "responded",
                                    !.resp = BatchResponse(r.b)]
            /\ total_translations' = total_translations + Len(r.b.results)
            /\ tpc' = fin.pc
            /\ tlog' = fin.log
            /\ tfailed' = fin.failed
            /\ tresult' = fin.result
            /\ targs' = targs

NoChain == [pc |-> "idle", log |-> <<>>, failed |-> {}, result |-> NONE]

HandleBatch(rawTexts, rawTarget, rawSource, minimal, reads) ==
    LET b == [pc |-> "running",
              texts |-> validate_texts(rawTexts),
              target_language |-> validate_language_codes(rawTarget),
              source_language |-> validate_language_codes(rawSource),
              minimal |-> minimal, i |-> 1, results |-> <<>>,
              cache_hits |-> 0, api_calls |-> 0, started |-> 0,
              allFailed |-> {}, resp |-> NoResponse]
    IN /\ gather = NoGather
       /\ batch.pc \in {"idle", "responded"}
       /\ tpc \in {"idle", "done"}
       /\ total_translations + Len(rawTexts) <= MaxTotal
       /\ BatchSettle(BatchLoop(b, l1, l2, reads), NoChain)
       /\ l2' = l2
       /\ audit' = NewBackgroundTasks(audit, 0)
       /\ UNCHANGED <<configVars, now, last, hreq, hget, hresp, inst, gather,
                      reqs, pure, chunked>>

\* translate goes on to c; when it has returned, the handler stores the
\* result, appends it and goes on with the loop
BatchChainStep(c, l2write, reads) ==
    /\ UNCHANGED <<configVars, now, last, hreq, hget, hresp, inst, gather,
                   reqs, pure, chunked>>
    /\ IF c.pc # "done"
       THEN /\ tpc' = c.pc
            /\ tlog' = c.log
            /\ tfailed' = c.failed
            /\ tresult' = c.result
            /\ UNCHANGED <<l1, l2, targs, caller, batch, total_translations,
                           audit>>
       ELSE LET translation_result ==
                    [c.result[1] EXCEPT !.processing_time_ms = TRUE,
                                        !.cache_level = "fresh"]
                st == CacheSet(hashSeed, enable_l1, redis_client, l1, l2, now,
                               batch.texts[batch.i], batch.target_language,
                               translation_result, l2write)
                b == [batch EXCEPT
                        !.results = Append(@, translation_result),
                        !.api_calls = BatchCount(@),
                        !.allFailed = IF c.failed = {"mymemory",
                                                     "libretranslate", "mock"}
                                      THEN @ \cup {batch.i} ELSE @,
                        !.i = @ + 1]
            IN /\ l2' = st.l2
               /\ audit' = AddTask(audit, 0, batch.texts[batch.i],
                                   translation_result)
               /\ BatchSettle(BatchLoop(b, st.l1, st.l2, reads), c)

\* what Redis does at each lookup of a step
BatchReads == [1..MaxTotal -> {"ok", "unreachable"}]

BatchMyMemoryReturns ==
    /\ caller = "batch"
    /\ batch.pc = "running"
    /\ tpc = "mymemory"
    /\ \E resp \in MMResponsesSmall, w \in L2WriteOutcomes, reads \in BatchReads :
          BatchChainStep(ChainAfterMyMemory(enable_mock_fallback, targs, tlog,
                                            tfailed, resp), w, reads)

BatchLibreReturns ==
    /\ caller = "batch"
    /\ batch.pc = "running"
    /\ tpc = "libretranslate"
    /\ \E resp \in LTResponsesSmall, w \in L2WriteOutcomes, reads \in BatchReads :
          BatchChainStep(ChainAfterLibre(enable_mock_fallback, targs, tlog,
                                         tfailed, resp), w, reads)

NextGather ==
    \/ \E texts \in SeqsUpTo(GatherTexts, MaxBatch), tl \in GatherTargets,
          sl \in GatherSources, w \in WorkerCounts : BatchCall(texts, tl, sl, w)
    \/ \E i \in 1..MaxBatch : TaskAcquire(i)
    \/ \E i \in 1..MaxBatch : TaskMyMemoryReturns(i)
    \/ \E i \in 1..MaxBatch : TaskLibreReturns(i)
    \/ GatherReturns

\* the cache plays no part in translate_batch
InitGather == Init /\ enable_l1 /\ redis_client

\* an awaited request returns (timeout=self.request_timeout), and the event
\* loop runs the tasks that are ready
SpecGatherLive ==
    /\ InitGather
    /\ [][NextGather]_vars
    /\ WF_vars(\E i \in 1..MaxBatch : TaskAcquire(i))
    /\ WF_vars(\E i \in 1..MaxBatch : TaskMyMemoryReturns(i))
    /\ WF_vars(\E i \in 1..MaxBatch : TaskLibreReturns(i))
    /\ WF_vars(GatherReturns)

NextBatch ==
    \/ NextGather
    \/ \E rawTexts \in SeqsUpTo(RawBatchTexts, MaxTotal) \ {<<>>},
          rawTarget \in RawBatchTargets, rawSource \in RawBatchSources,
          minimal \in BOOLEAN, reads \in BatchReads :
          HandleBatch(rawTexts, rawTarget, rawSource, minimal, reads)
    \/ BatchMyMemoryReturns
    \/ BatchLibreReturns

InitBatch == Init /\ enable_l1

SpecBatch == InitBatch /\ [][NextBatch]_vars

----------------------------------------------------------------------------
(* Both endpoints of the service, their requests served one after the      *)
(* other over the same cache.                                              *)

ServiceBatches == {<<TxtHelloVar>>, <<TxtXyz, TxtHelloVar>>,
                   <<TxtHelloVar, TxtHelloVar>>}
ServiceSources == {LangEn}

NextService ==
    \/ \E rawText \in RawTexts, rawTarget \in RawBatchTargets,
          rawSource \in ServiceSources, r \in L2ReadOutcomes :
          HandleTranslate(rawText, rawTarget, rawSource, r)
    \/ MyMemoryReturns
    \/ LibreReturns
    \/ \E rawTexts \in ServiceBatches,
          rawTarget \in RawBatchTargets, rawSource \in ServiceSources,
          reads \in BatchReads :
          HandleBatch(rawTexts, rawTarget, rawSource, FALSE, reads)
    \/ BatchMyMemoryReturns
    \/ BatchLibreReturns

SpecService == InitBatch /\ [][NextService]_vars

----------------------------------------------------------------------------
(* POST /translate handled for two clients at once: each request is a      *)
(* coroutine of main.translate_text; the event loop switches between them  *)
(* at the awaited provider requests, while cache_manager.get, .set and the *)
(* counter update run without a switch.                                    *)

Slots == {1, 2}
ConcTexts == {TxtHelloVar}
ConcTargets == {LangHi}
ConcSources == {LangAuto, LangEn}

\* the requests that are inside translate
InChain(rs) == {s \in Slots : rs[s].pc \in {"mymemory", "libretranslate"}}

\* a request comes in: validation, cache_manager.get, and on a miss the call
\* of translate up to its first awaited request
ConcHandle(s, rawText, rawTarget, rawSource, l2read) ==
    LET req == [text |-> validate_text(rawText),
                target_language |-> validate_language_codes(rawTarget),
                source_language |-> validate_language_codes(rawSource)]
        g == CacheGet(hashSeed, enable_l1, redis_client, l1, l2, now,
                      req.text, req.target_language, l2read)
        slot == [pc |-> "done", req |-> req, args |-> HandlerTranslateArgs(req),
                 log |-> <<>>, failed |-> {}, result |-> NONE,
                 missed |-> FALSE, write |-> "ok", setNo |-> 0,
                 resp |-> NoResponse]
    IN /\ reqs[s].pc \in {"idle", "done"}
       /\ tpc = "idle"
       /\ gather = NoGather
       /\ batch = NoBatch
       /\ \/ g.ret # NONE
          \/ total_translations + Cardinality(InChain(reqs)) < MaxTotal
       /\ l1' = IF g.ret # NONE
                THEN L1Timed(g.l1, _generate_cache_key(hashSeed, req.text,
                                                       req.target_language),
                             now)
                ELSE g.l1
       /\ audit' = NewBackgroundTasks(audit, s)
       /\ UNCHANGED <<configVars, l2, now, last, chainVars, handlerVars,
                      inst, gather, batch, pure, chunked>>
       /\ IF g.raised
          THEN reqs' = [reqs EXCEPT
                          ![s] = [slot EXCEPT
                                    !.resp = [status |-> 500, body |-> NONE]]]
          ELSE IF g.ret # NONE
          THEN reqs' = [reqs EXCEPT
                          ![s] = [slot EXCEPT
                                    !.result = g.ret,
                                    !.resp = Respond(
                                       [g.ret[1] EXCEPT
                                          !.processing_time_ms = TRUE])]]
          ELSE reqs' = [reqs EXCEPT
                          ![s] = [slot EXCEPT !.pc = "mymemory",
                                              !.log = <<"mymemory">>,
                                              !.missed = TRUE]]

\* translate of request s goes on to c; when it has returned, the handler
\* stores the result, counts the translation and responds
ConcStep(s, c, l2write) ==
    /\ UNCHANGED <<configVars, now, last, chainVars, hreq, hget, hresp,
                   inst, gather, batch, pure, chunked>>
    /\ IF c.pc # "done"
       THEN /\ reqs' = [reqs EXCEPT ![s].pc = c.pc, ![s].log = c.log,
                                    ![s].failed = c.failed]
            /\ UNCHANGED <<l1, l2, total_translations, audit>>
       ELSE LET f == HandlerFinish(reqs[s].req, c.result[1], l2write)
            IN /\ audit' = AddTask(audit, s, reqs[s].req.text, c.result[1])
               /\ l1' = f.l1
               /\ l2' = f.l2
               /\ total_translations' = f.total
               /\ reqs' = [reqs EXCEPT ![s].pc = "done", ![s].log = c.log,
                                       ![s].failed = c.failed,
                                       ![s].result = c.result,
                                       ![s].write = l2write,
                                       ![s].setNo = f.total,
                                       ![s].resp = f.resp]

ConcMyMemoryReturns(s) ==
    /\ reqs[s].pc = "mymemory"
    /\ \E resp \in MMResponsesSmall, w \in L2WriteOutcomes :
          ConcStep(s, ChainAfterMyMemory(enable_mock_fallback, reqs[s].args,
                                         reqs[s].log, reqs[s].failed, resp), w)

ConcLibreReturns(s) ==
    /\ reqs[s].pc = "libretranslate"
    /\ \E resp \in LTResponsesSmall, w \in L2WriteOutcomes :
          ConcStep(s, ChainAfterLibre(enable_mock_fallback, reqs[s].args,
                                      reqs[s].log, reqs[s].failed, resp), w)

NextConc ==
    \/ \E s \in Slots, rawText \in ConcTexts, rawTarget \in ConcTargets,
          rawSource \in ConcSources, r \in L2ReadOutcomes :
          ConcHandle(s, rawText, rawTarget, rawSource, r)
    \/ \E s \in Slots : ConcMyMemoryReturns(s)
    \/ \E s \in Slots : ConcLibreReturns(s)

SpecConc == Init /\ [][NextConc]_vars

----------------------------------------------------------------------------
(* The counter under concurrent requests: two clients of /translate and a  *)
(* client of /translate/batch, whose handler awaits translate while the    *)
(* others go on.                                                           *)

CounterBatches == {<<TxtXyz, TxtHelloVar>>}

NextCounter ==
    \/ \E s \in Slots, rawText \in ConcTexts, rawTarget \in ConcTargets,
          rawSource \in ServiceSources, r \in L2ReadOutcomes :
          ConcHandle(s, rawText, rawTarget, rawSource, r)
    \/ \E s \in Slots : ConcMyMemoryReturns(s)
    \/ \E s \in Slots : ConcLibreReturns(s)
    \/ \E rawTexts \in CounterBatches,
          rawTarget \in RawBatchTargets, rawSource \in ServiceSources,
          reads \in BatchReads :
          HandleBatch(rawTexts, rawTarget, rawSource, FALSE, reads)
    \/ BatchMyMemoryReturns
    \/ BatchLibreReturns

\* Redis is there, so that requests are answered from the cache as well
InitCounter == Init /\ enable_l1 /\ redis_client /\ enable_mock_fallback

SpecCounter == InitCounter /\ [][NextCounter]_vars

----------------------------------------------------------------------------
(* translate_with_mymemory called on its own with an answer of the         *)
(* endpoint that carries several candidates                                *)

TrTaShort == <<2997>>                 \* one Tamil letter
TrLatinAlt == <<118, 97>>             \* "va"

PickSegments == {TxtHelloVar, TxtXyz}
PickTranslations == {TrTaHello, TrTaShort, TrLatin, TrLatinAlt}
PickQualities == {74, 75, 90}
PickMatches ==
    [segment : PickSegments, translation : PickTranslations,
     quality : PickQualities]

\* the endpoint's best guess, used when no candidate counts
PickGuess == Some([translatedText |-> TxtXyz, match |-> 0])

\* one call is followed: a call leaves nothing behind for the next
MyMemoryPick(matches) ==
    LET resp == [kind |-> "ok", matches |-> matches, responseData |-> PickGuess]
    IN /\ pure = NoPure
       /\ pure' = [op |-> "translate_with_mymemory", text |-> TxtHello,
                   target_language |-> LangTa, matches |-> matches,
                   ret |-> translate_with_mymemory(TxtHello, LangTa, LangEn,
                                                   resp)]
       /\ UNCHANGED <<configVars, cacheVars, now, chainVars, handlerVars,
                      inst, gather, batch, reqs, chunked, audit>>

NextPick == \E matches \in SeqsUpTo(PickMatches, MaxMatches + 1) :
               MyMemoryPick(matches)

\* the switches play no part in translate_with_mymemory
InitPick == Init /\ enable_l1 /\ redis_client /\ enable_mock_fallback

SpecPick == InitPick /\ [][NextPick]_vars

----------------------------------------------------------------------------
(* translate_with_mymemory called on its own with every answer of the      *)
(* endpoint that has responseStatus 200                                    *)

GuessTargets == {LangTa, LangEn}

\* one call is followed: a call leaves nothing behind for the next
MyMemoryGuess(target_language, resp) ==
    /\ pure = NoPure
    /\ pure' = [op |-> "mymemory", text |-> TxtHello,
                target_language |-> target_language,
                matches |-> resp.matches, responseData |-> resp.responseData,
                ret |-> translate_with_mymemory(TxtHello, target_language,
                                                LangEn, resp)]
    /\ UNCHANGED <<configVars, cacheVars, now, chainVars, handlerVars,
                   inst, gather, batch, reqs, chunked, audit>>

NextGuess ==
    \E tl \in GuessTargets, resp \in {r \in MMResponses : r.kind = "ok"} :
       MyMemoryGuess(tl, resp)

SpecGuess == InitPick /\ [][NextGuess]_vars

----------------------------------------------------------------------------
(* TranslationServices._chunk_text called on its own *)

Dot == 46
Space == 32

\* the position of the first ". " of text, 0 when there is none
FirstSep(text) ==
    LET at == {i \in 1..(Len(text) - 1) : text[i] = Dot /\ text[i + 1] = Space}
    IN IF at = {} THEN 0 ELSE CHOOSE i \in at : \A j \in at : i <= j

\* text.split('. ')
RECURSIVE SplitSentences(_)
SplitSentences(text) ==
    LET i == FirstSep(text)
    IN IF i = 0 THEN <<text>>
       ELSE <<SubSeq(text, 1, i - 1)>>
               \o SplitSentences(SubSeq(text, i + 2, Len(text)))

\* the loop over the sentences and the append after it
RECURSIVE SentenceLoop(_, _, _, _)
SentenceLoop(sentences, current_chunk, chunks, max_length) ==
    IF sentences = <<>>
    THEN IF current_chunk # <<>> THEN Append(chunks, Strip(current_chunk))
         ELSE chunks
    ELSE LET sentence == Head(sentences)
             ended == sentence \o <<Dot, Space>>
         IN IF Len(current_chunk \o ended) <= max_length
            THEN SentenceLoop(Tail(sentences), current_chunk \o ended, chunks,
                              max_length)
            ELSE SentenceLoop(
                    Tail(sentences), ended,
                    Append(IF current_chunk # <<>>
                           THEN Append(chunks, Strip(current_chunk))
                           ELSE chunks,
                           Strip(ended)),
                    max_length)

\* faulty variant: a chunk that is too long is kept whole
HardSplitKeeps(chunk, max_length) == <<chunk>>

\* chunk[i:i+max_length] for i in range(0, len(chunk), max_length)
RECURSIVE HardSplit(_, _)
HardSplit(chunk, max_length) ==
    IF Len(chunk) <= max_length THEN <<chunk>>
    ELSE <<SubSeq(chunk, 1, max_length)>>
            \o HardSplit(SubSeq(chunk, max_length + 1, Len(chunk)), max_length)

\* the loop that builds final_chunks
RECURSIVE FinalChunks(_, _)
FinalChunks(chunks, max_length) ==
    IF chunks = <<>> THEN <<>>
    ELSE HardSplit(Head(chunks), max_length)
            \o FinalChunks(Tail(chunks), max_length)

_chunk_text(text, max_length) ==
    IF Len(text) <= max_length THEN <<text>>
    ELSE FinalChunks(SentenceLoop(SplitSentences(text), <<>>, <<>>, max_length),
                     max_length)

ChunkChars == {97, Space, Dot}        \* "a", " ", "."
ChunkLimits == {2, 3}                 \* max_length

\* one call is followed: a call leaves nothing behind for the next
ChunkCall(text, max_length) ==
    /\ pure = NoPure
    /\ pure' = [op |-> "_chunk_text", text |-> text, max_length |-> max_length,
                ret |-> _chunk_text(text, max_length)]
    /\ UNCHANGED <<configVars, cacheVars, now, chainVars, handlerVars,
                   inst, gather, batch, reqs, chunked, audit>>

NextChunk ==
    \E text \in SeqsUpTo(ChunkChars, MaxTextLen), max_length \in ChunkLimits :
       ChunkCall(text, max_length)

SpecChunk == InitPick /\ [][NextChunk]_vars

----------------------------------------------------------------------------
(* TranslationServices._translate_single_chunk: the fragments of a long    *)
(* text go through translate one after the other; the coroutine waits at   *)
(* the provider requests of the fragment in hand.                          *)

ChunkThreshold == 450                 \* len(text) > 450
DefaultMaxLength == 450               \* max_length: int = 450

\* n times the character c
Letters(c, n) == [i \in 1..n |-> c]

AtThreshold == Letters(97, ChunkThreshold)
LongWord == Letters(97, ChunkThreshold + 1)
TwoSentences == Letters(97, 300) \o <<Dot, Space>> \o Letters(98, 300)

ChunkedTexts == {TxtHello, AtThreshold, LongWord, TwoSentences}
ChunkedTargets == {LangTa, LangHi}
ChunkedSources == {LangAuto, LangEn}

\* " ".join(translated_chunks)
RECURSIVE JoinSpace(_)
JoinSpace(parts) ==
    IF parts = <<>> THEN <<>>
    ELSE IF Len(parts) = 1 THEN parts[1]
    ELSE Head(parts) \o <<Space>> \o JoinSpace(Tail(parts))

\* faulty variant: only the last fragment's translation is returned
ChunkedReturnLastOnly(ch, translated_chunks) ==
    MkResult(translated_chunks[Len(translated_chunks)], ch.source_language,
             ch.target_language, "chunked", 75, ch.text)

\* the dict returned after the loop
ChunkedReturn(ch, translated_chunks) ==
    MkResult(JoinSpace(translated_chunks), ch.source_language,
             ch.target_language, "chunked", 75, ch.text)

\* the call of translate for the text or the fragment a, up to its first
\* awaited request
ChunkedTranslate(ch, a) ==
    [ch EXCEPT !.pc = "mymemory",
               !.calls = Append(ch.calls,
                                [text |-> a,
                                 source_language |-> ch.source_language,
                                 target_language |-> ch.target_language]),
               !.log = <<"mymemory">>,
               !.failed = {}]

\* the loop from its head on, with translated_chunks as it stands
ChunkedLoop(ch, translated_chunks) ==
    LET c == [ch EXCEPT !.translated_chunks = translated_chunks]
        n == Len(translated_chunks)
    IN IF n < Len(ch.chunks)
       THEN ChunkedTranslate(c, ch.chunks[n + 1])
       ELSE [c EXCEPT !.pc = "returned",
                      !.result = Some(ChunkedReturn(ch, translated_chunks))]

\* faulty variant: a fragment that failed is left out and the loop goes on
ChunkedAfterTranslateSkips(ch, result) ==
    LET c == [ch EXCEPT !.results = Append(ch.results, result)]
    IN IF ~ch.long
       THEN [c EXCEPT !.pc = "returned", !.result = Some(result)]
       ELSE IF HasError(result)
       THEN [ChunkedLoop([c EXCEPT !.chunks = SubSeq(ch.chunks, 1,
                                                      Len(ch.translated_chunks))
                                                \o SubSeq(ch.chunks,
                                                    Len(ch.translated_chunks) + 2,
                                                    Len(ch.chunks))],
                         ch.translated_chunks)
               EXCEPT !.chunks = ch.chunks]
       ELSE ChunkedLoop(c, Append(ch.translated_chunks, result.translated_text))

\* translate has returned result to _translate_single_chunk
ChunkedAfterTranslate(ch, result) ==
    LET c == [ch EXCEPT !.results = Append(ch.results, result)]
    IN IF ~ch.long
       THEN [c EXCEPT !.pc = "returned", !.result = Some(result)]
       ELSE IF HasError(result)
       THEN [c EXCEPT !.pc = "returned", !.result = Some(result)]
       ELSE ChunkedLoop(c, Append(ch.translated_chunks, result.translated_text))

\* one call is followed: a call leaves nothing behind for the next
ChunkedCall(text, target_language, source_language) ==
    LET long == Len(text) > ChunkThreshold
        ch == [pc |-> "idle", text |-> text,
               source_language |-> source_language,
               target_language |-> target_language,
               long |-> long,
               chunks |-> IF long THEN _chunk_text(text, DefaultMaxLength)
                          ELSE <<>>,
               calls |-> <<>>, results |-> <<>>, translated_chunks |-> <<>>,
               log |-> <<>>, failed |-> {}, result |-> NONE]
    IN /\ chunked = NoChunked
       /\ chunked' = IF long THEN ChunkedLoop(ch, <<>>)
                     ELSE ChunkedTranslate(ch, text)
       /\ UNCHANGED <<configVars, cacheVars, now, chainVars, handlerVars,
                      inst, gather, batch, reqs, pure, audit>>

\* translate of the fragment in hand goes on to c
ChunkedStep(c) ==
    /\ chunked' = IF c.pc # "done"
                  THEN [chunked EXCEPT !.pc = c.pc, !.log = c.log,
                                       !.failed = c.failed]
                  ELSE ChunkedAfterTranslate(
                          [chunked EXCEPT !.log = c.log, !.failed = c.failed],
                          c.result[1])
    /\ UNCHANGED <<configVars, cacheVars, now, chainVars, handlerVars,
                   inst, gather, batch, reqs, pure, audit>>

ChunkedMyMemoryReturns ==
    /\ chunked.pc = "mymemory"
    /\ \E resp \in MMResponsesSmall :
          ChunkedStep(ChainAfterMyMemory(
                         enable_mock_fallback, chunked.calls[Len(chunked.calls)],
                         chunked.log, chunked.failed, resp))

ChunkedLibreReturns ==
    /\ chunked.pc = "libretranslate"
    /\ \E resp \in LTResponsesSmall :
          ChunkedStep(ChainAfterLibre(
                         enable_mock_fallback, chunked.calls[Len(chunked.calls)],
                         chunked.log, chunked.failed, resp))

NextChunked ==
    \/ \E text \in ChunkedTexts, tl \in ChunkedTargets, sl \in ChunkedSources :
          ChunkedCall(text, tl, sl)
    \/ ChunkedMyMemoryReturns
    \/ ChunkedLibreReturns

SpecChunked == InitTranslate /\ [][NextChunked]_vars

----------------------------------------------------------------------------
(* store_translation_in_db.  It is a plain function, so Starlette runs the *)
(* task of each response in a worker thread: the tasks of different        *)
(* requests run side by side, each with a database session of its own, and *)
(* a thread can be overtaken between its query and its commit.             *)

MaxStores == 3

StoreTexts == {TxtHello, Strip(TxtHelloVar), TxtXyz}   \* "hello", "Hello", "xyz"
StoreTargets == {LangHi, LangTa}
CommitOutcomes == {"ok", "error"}

\* Translation.generate_hash; sha256 is taken to tell different strings apart
generate_hash(text, target_language) ==
    <<Lower(Strip(text)), Lower(target_language)>>

\* the row the task builds
TranslationRow(t) ==
    [text_hash |-> generate_hash(t.text, t.result.target_language),
     source_text |-> t.text,
     target_language |-> t.result.target_language,
     source_language |-> t.result.source_language,
     translated_text |-> t.result.translated_text,
     translation_service |-> t.result.service,
     confidence |-> t.result.confidence,
     is_cached |-> TRUE]

\* db.query(Translation).filter(Translation.text_hash == text_hash).first()
ExistingRow(rows, text_hash) ==
    \E k \in 1..Len(rows) : rows[k].text_hash = text_hash

\* the response of a request that translated text has been sent and its
\* task is handed to a worker thread
StoreCall(text, target_language) ==
    /\ Len(audit.tasks) < MaxStores
    /\ audit' = AddTask(audit, Len(audit.tasks) + 1, text,
                        MkResult(TrLatin, LangAuto, target_language,
                                 "mymemory", 85, text))
    /\ UNCHANGED <<configVars, cacheVars, now, chainVars, handlerVars,
                   inst, gather, batch, reqs, pure, chunked>>

\* task i opens its session and looks for a row with its hash; when there
\* is one the task is over
StoreQuery(i) ==
    /\ i \in 1..Len(audit.tasks)
    /\ audit.tasks[i].pc = "scheduled"
    /\ LET existing == ExistingRow(audit.rows,
                                   TranslationRow(audit.tasks[i]).text_hash)
       IN audit' = [audit EXCEPT
                       !.tasks[i].existing = existing,
                       !.tasks[i].pc = IF existing THEN "done" ELSE "queried"]
    /\ UNCHANGED <<configVars, cacheVars, now, chainVars, handlerVars,
                   inst, gather, batch, reqs, pure, chunked>>

\* task i, which found no row, adds its row and commits; a failed commit is
\* caught and printed
StoreInsert(i, outcome) ==
    /\ i \in 1..Len(audit.tasks)
    /\ audit.tasks[i].pc = "queried"
    /\ audit' = [audit EXCEPT
                    !.tasks[i].pc = "done",
                    !.rows = IF outcome = "ok"
                             THEN Append(@, TranslationRow(audit.tasks[i]))
                             ELSE @]
    /\ UNCHANGED <<configVars, cacheVars, now, chainVars, handlerVars,
                   inst, gather, batch, reqs, pure, chunked>>

NextStore ==
    \/ \E text \in StoreTexts, tl \in StoreTargets : StoreCall(text, tl)
    \/ \E i \in 1..MaxStores : StoreQuery(i)
    \/ \E i \in 1..MaxStores, o \in CommitOutcomes : StoreInsert(i, o)

\* neither the cache nor the providers play a part
SpecStore == InitPick /\ [][NextStore]_vars

----------------------------------------------------------------------------
(* POST /translate with texts around the chunk limit.  TranslationRequest  *)
(* admits up to MAX_TEXT_LENGTH (1000) characters.                         *)

LongRawTexts == {AtThreshold, LongWord}
LongTargets == {LangHi}
LongSources == {LangEn}

NextLong ==
    \/ \E rawText \in LongRawTexts, rawTarget \in LongTargets,
          rawSource \in LongSources, r \in L2ReadOutcomes :
          HandleTranslate(rawText, rawTarget, rawSource, r)
    \/ MyMemoryReturns
    \/ LibreReturns

SpecLong == Init /\ [][NextLong]_vars

----------------------------------------------------------------------------
(* Properties of translate (SpecTranslate) *)

Providers == {"mymemory", "libretranslate", "mock"}
ChainOrder == <<"mymemory", "libretranslate", "mock">>
ServiceOf(p) == IF p = "mock" THEN "mock_indian" ELSE p
Invoked == {tlog[i] : i \in 1..Len(tlog)}

\* C1: translate never raises and always returns a result object, whatever
\* the outcome of each provider: a call that is over has returned a dict
\* for the text it was given.
C1_TranslateAlwaysReturns ==
    tpc = "done" =>
        /\ tresult # NONE
        /\ tresult[1].original_text = targs.text
        /\ tresult[1].service \in {ServiceOf(p) : p \in Providers} \cup {"none"}

C1_Witness ==
    /\ tpc = "done"
    /\ tfailed = {"mymemory", "libretranslate"}
    /\ tresult # NONE
    /\ tresult[1].service = "mock_indian"

C3_ErrorIffAllFailed ==
    tpc = "done" =>
        /\ HasError(tresult[1]) <=> tfailed = Providers
        /\ HasError(tresult[1]) =>
              /\ tresult[1].translated_text = targs.text
              /\ tresult[1].service = "none"
              /\ tresult[1].confidence = 0
              /\ tresult[1].error = AllFailedMsg
              /\ AllFailedMsg # ""
        /\ tresult[1].service # "none" => ~HasError(tresult[1])

C3_Witness ==
    /\ tpc = "done"
    /\ tresult # NONE
    /\ HasError(tresult[1])
    /\ tfailed = Providers

\* C4: a provider whose outcome is a timeout, a network failure, a
\* non-success status or an empty or invalid payload has failed: its output
\* is not the result and the next provider is invoked.
C4_FailureCascades ==
    tpc = "done" =>
        /\ "mymemory" \in tfailed =>
              /\ tresult[1].service # "mymemory"
              /\ "libretranslate" \in Invoked
        /\ "libretranslate" \in tfailed =>
              /\ tresult[1].service # "libretranslate"
              /\ "mock" \in Invoked

\* C19: within one translate call each provider is invoked at most once,
\* and a call that has begun comes to its end, with a result.
C19_NoRetryAndTermination ==
    /\ [](\A i \in 1..Len(tlog), j \in 1..Len(tlog) :
             tlog[i] = tlog[j] => i = j)
    /\ (tpc \in {"mymemory", "libretranslate"})
           ~> (tpc = "done" /\ tresult # NONE)

C19_Witness ==
    /\ tpc = "done"
    /\ tlog = <<"mymemory", "libretranslate", "mock">>
    /\ tresult # NONE
    /\ HasError(tresult[1])

----------------------------------------------------------------------------
(* Properties of the cache (SpecCache) *)

LastKey == _generate_cache_key(hashSeed, last.text, last.lang)

\* C5: with L1 enabled, a get that follows at once the set of the same text
\* and language returns the entry written, labelled "L1".
C5_RoundTrip ==
    (last.op = "get" /\ enable_l1 /\ last.prevSet # NONE) =>
        /\ last.ret # NONE
        /\ last.ret[1].translated_text = last.prevSet[1].translated_text
        /\ last.ret[1].service = last.prevSet[1].service
        /\ last.ret[1].confidence = last.prevSet[1].confidence
        /\ last.ret[1].cache_level = "L1"

\* C6: with L1 enabled, after a set L1 holds an entry under the key of the
\* text and language written.
C6_SetWritesL1 ==
    (last.op = "set" /\ enable_l1) => L1Contains(l1, LastKey, now)

\* what a get has returned, against the levels as it found them
GetResultOk ==
    LET l1hit == enable_l1 /\ last.hadL1
        l2hit == redis_client /\ last.hadL2 /\ last.io = "ok"
        l2miss == ~redis_client \/ ~last.hadL2
    IN last.op = "get" =>
        /\ l1hit => /\ last.ret # NONE
                    /\ last.ret[1].cache_level = "L1"
                    /\ ~last.usedL2
        /\ (~l1hit /\ l2hit) =>
                    /\ last.ret # NONE
                    /\ last.ret[1] = [l2[LastKey].val EXCEPT !.cache_level = "L2"]
        /\ (~l1hit /\ l2miss) => last.ret = NONE

\* C7: get returns an L1 hit labelled "L1" without querying Redis; on an L1
\* miss and a Redis hit it returns the Redis entry labelled "L2"; when both
\* miss it returns absent and leaves both levels as they were.
C7_GetOrder ==
    [][(last'.n # last.n /\ last'.op = "get") =>
          /\ GetResultOk'
          /\ last'.ret = NONE => (l1' = l1 /\ l2' = l2)]_vars

C7_Witness ==
    /\ last.op = "get"
    /\ ~last.hadL1
    /\ last.hadL2
    /\ last.ret # NONE
    /\ last.ret[1].cache_level = "L2"

\* C8: with L1 enabled, a get that misses L1 and hits Redis leaves the entry
\* in L1, and the get of the same key that follows at once returns it
\* labelled "L1", whether Redis can be reached or not.
C8_Promotion ==
    /\ (last.op = "get" /\ enable_l1 /\ ~last.hadL1 /\ last.ret # NONE) =>
          L1Contains(l1, LastKey, now)
    /\ (last.op = "get" /\ enable_l1 /\ last.prevL2) =>
          /\ last.ret # NONE
          /\ last.ret[1].cache_level = "L1"

\* C10: set writes to Redis whenever the client is there, whether or not
\* the L1 write happened; it never raises, and a failed Redis write leaves
\* L1 as the L1 half of the call left it.
C10_SetL2Independent ==
    last.op = "set" =>
        /\ ~last.raised
        /\ redis_client => last.usedL2
        /\ (redis_client /\ last.io = "ok") =>
              /\ L2Has(l2, LastKey, now)
              /\ l2[LastKey].val = last.data[1]
        /\ l1 = last.l1mid

C10_Witness ==
    /\ last.op = "set"
    /\ redis_client
    /\ last.usedL2
    /\ last.io = "unreachable"
    /\ ~last.raised

\* two texts that differ only in letter case and in leading and trailing
\* whitespace
SameButCaseAndMargin(t1, t2) ==
    LET a == Strip(t1)
        b == Strip(t2)
    IN /\ Len(a) = Len(b)
       /\ \A i \in 1..Len(a) : LowerChar(a[i]) = LowerChar(b[i])

\* two language codes that differ only in letter case
SameButCase(c1, c2) ==
    /\ Len(c1) = Len(c2)
    /\ \A i \in 1..Len(c1) : LowerChar(c1[i]) = LowerChar(c2[i])

\* C11: within one process, texts that differ only in letter case and
\* leading or trailing whitespace, with language codes that differ only in
\* letter case, have the same cache key, and with L1 enabled a get for one
\* spelling that follows at once the set under the other returns the entry
\* that was set.
C11_KeyNormalization ==
    [][(/\ last.op = "set"
        /\ last'.op = "get"
        /\ last'.n # last.n
        /\ SameButCaseAndMargin(last.text, last'.text)
        /\ SameButCase(last.lang, last'.lang)
        /\ enable_l1)
       => /\ _generate_cache_key(hashSeed, last.text, last.lang)
               = _generate_cache_key(hashSeed, last'.text, last'.lang)
          /\ last'.ret # NONE
          /\ last'.ret[1].translated_text = last.data[1].translated_text
          /\ last'.ret[1].service = last.data[1].service
          /\ last'.ret[1].confidence = last.data[1].confidence]_vars

----------------------------------------------------------------------------
(* Properties of the providers (SpecTranslate) *)

\* the phrase table has an entry for the call's text and target language
InTable(a) ==
    /\ Strip(Lower(a.text)) \in DOMAIN mock_translations
    /\ _normalize_language_code(a.target_language)
          \in DOMAIN mock_translations[Strip(Lower(a.text))]

\* what C23 says of a call in which primary and secondary both failed
DictionaryAnswer ==
    IF InTable(targs)
    THEN /\ tresult[1].service = "mock_indian"
         /\ tresult[1].confidence = 60
         /\ tresult[1].translated_text
               = mock_translations[Strip(Lower(targs.text))]
                                  [_normalize_language_code(targs.target_language)]
         /\ ~HasError(tresult[1])
    ELSE tresult[1] = DegradedResult(targs.text, targs.source_language,
                                     targs.target_language)

ConcreteSource(a) ==
    IF a.source_language = LangAuto THEN LangEn
    ELSE _normalize_language_code(a.source_language)

\* source and target are the same allowed language
SameLanguage(a) ==
    /\ ConcreteSource(a) = _normalize_language_code(a.target_language)
    /\ ConcreteSource(a) \in supported_languages

LanguagesAllowed(a) ==
    /\ _normalize_language_code(a.target_language) \in supported_languages
    /\ ConcreteSource(a) \in supported_languages

\* C25: a request to the secondary's endpoint is awaited only when the
\* normalized target and the source ("auto" replaced by "en") are in the
\* allow-list; otherwise the secondary gives no result, without a request,
\* and translate goes on with the dictionary.
C25_LanguageConstraint ==
    /\ tpc = "libretranslate" => LanguagesAllowed(targs)
    /\ (/\ tpc = "done"
        /\ "libretranslate" \in Invoked
        /\ ~LanguagesAllowed(targs))
       => /\ "mock" \in Invoked
          /\ tresult # NONE
          /\ tresult[1].service \in {"mock_indian", "none"}

\* the primary failed, the secondary was skipped for the source "ta" and the
\* dictionary answered
C25_Witness ==
    /\ tpc = "done"
    /\ "mymemory" \in tfailed
    /\ targs.source_language = LangTa
    /\ targs.target_language = LangHi
    /\ "libretranslate" \in Invoked
    /\ tresult[1].service = "mock_indian"

----------------------------------------------------------------------------
(* Properties of the processes sharing Redis (SpecShared) *)

\* C12: two processes compute the same cache key for the same text and
\* target language, so that a get in one process that follows at once the
\* set of the same text and language in the other (Redis answering both)
\* returns the entry that was set.
C12_KeyReproducible ==
    (/\ inst.last.op = "get"
     /\ inst.last.prev # NONE
     /\ inst.last.prevP # inst.last.p
     /\ inst.last.io = "ok")
    => /\ _generate_cache_key(inst.seed[inst.last.p], inst.last.text,
                              inst.last.lang)
            = _generate_cache_key(inst.seed[inst.last.prevP], inst.last.text,
                                  inst.last.lang)
       /\ inst.last.ret # NONE
       /\ inst.last.ret[1].translated_text = inst.last.prev[1].translated_text

----------------------------------------------------------------------------
(* Properties of the /translate handler (Spec) *)

L2ReadFailed ==
    /\ hreq # NoRequest
    /\ hget.queriedL2
    /\ \/ hget.io = "unreachable"
       \/ hget.io = "undecodable" /\ hget.hadL2

\* C9: a Redis read failure during get is not fatal: get does not raise and
\* returns absent, the request goes on to the provider chain, and the
\* chain's result is what the request answers with.
C9_L2ReadFailureNonFatal ==
    L2ReadFailed =>
        /\ ~hget.raised
        /\ hget.ret = NONE
        /\ tpc # "idle"
        /\ tlog # <<>>
        /\ tpc = "done" =>
              /\ tresult # NONE
              /\ hresp.status # 0
              /\ ResponseValid(tresult[1]) =>
                    /\ hresp.status = 200
                    /\ hresp.body[1].translated_text = tresult[1].translated_text
                    /\ hresp.body[1].service = tresult[1].service

C9_Witness ==
    /\ L2ReadFailed
    /\ hget.io = "undecodable"
    /\ tpc = "done"
    /\ hresp.status = 200

\* C13: a request that misses the cache invokes the provider chain with
\* the request's source language as the source and its target language as
\* the target, and the result it answers with and the entry it leaves under
\* the key of (text, target language) have the request's target language.
C13_ArgumentOrder ==
    (hreq # NoRequest /\ hget.ret = NONE /\ ~hget.raised /\ tpc # "idle") =>
        /\ targs.text = hreq.text
        /\ targs.source_language = hreq.source_language
        /\ targs.target_language = hreq.target_language
        /\ hresp.status = 200 =>
              hresp.body[1].target_language = hreq.target_language
        /\ (tpc = "done"
            /\ L2Has(l2, _generate_cache_key(hashSeed, hreq.text,
                                             hreq.target_language), now)) =>
              l2[_generate_cache_key(hashSeed, hreq.text,
                                     hreq.target_language)].val.target_language
                 = hreq.target_language

----------------------------------------------------------------------------
(* Properties of the batches (SpecBatch, SpecGatherLive) *)

\* result r is the resolution of text t
ResultOf(r, t) == SameButCaseAndMargin(r.original_text, t)

\* C14: a batch returns exactly len(texts) results and result i is the
\* resolution of text i, both for translate_batch and for the results list
\* of the response of /translate/batch.
C14_BatchOrdering ==
    /\ gather.pc = "returned" =>
          /\ Len(gather.results[1]) = Len(gather.texts)
          /\ \A i \in 1..Len(gather.texts) :
                ResultOf(gather.results[1][i], gather.texts[i])
    /\ (batch.pc = "responded" /\ batch.resp.status = 200) =>
          /\ Len(batch.resp.results) = Len(batch.texts)
          /\ Len(batch.results) = Len(batch.texts)
          /\ \A i \in 1..Len(batch.texts) :
                /\ ResultOf(batch.results[i], batch.texts[i])
                /\ batch.resp.results[i].translated_text
                      = batch.results[i].translated_text

\* C15: during a batch the number of texts inside a provider-chain call is
\* at most the number of workers (translate_batch), and at most one in the
\* loop of the endpoint; the slots taken and the slots free add up.
C15_ConcurrencyBound ==
    /\ gather.pc = "running" =>
          /\ Cardinality(InFlight(gather.tasks)) <= gather.max_workers
          /\ gather.value = gather.max_workers
                              - Cardinality(InFlight(gather.tasks))
    /\ batch.pc = "running" =>
          /\ batch.started - batch.api_calls <= 1
          /\ batch.started - batch.api_calls >= 0

C15_Witness ==
    /\ gather.pc = "running"
    /\ Len(gather.texts) = 3
    /\ gather.max_workers = 2
    /\ Cardinality(InFlight(gather.tasks)) = 2
    /\ Queued(gather.tasks) # {}

\* the degraded result of text t
IsDegraded(r, t) ==
    /\ HasError(r)
    /\ r.service = "none"
    /\ r.confidence = 0
    /\ r.translated_text = t

\* C16: a text whose providers all failed has a degraded result at its own
\* index, the other texts are resolved all the same, and every text of a
\* batch that is over has a result, with or without an error.
C16_FailureIsolation ==
    /\ gather.pc = "returned" =>
          /\ Len(gather.results[1]) = Len(gather.texts)
          /\ \A i \in 1..Len(gather.texts) :
                /\ ResultOf(gather.results[1][i], gather.texts[i])
                /\ gather.tasks[i].failed = {"mymemory", "libretranslate", "mock"}
                      <=> IsDegraded(gather.results[1][i], gather.texts[i])
                /\ HasError(gather.results[1][i])
                      => IsDegraded(gather.results[1][i], gather.texts[i])
    /\ batch.pc = "responded" =>
          /\ Len(batch.results) = Len(batch.texts)
          /\ \A i \in 1..Len(batch.texts) :
                /\ ResultOf(batch.results[i], batch.texts[i])
                /\ i \in batch.allFailed
                      => IsDegraded(batch.results[i], batch.texts[i])
                /\ HasError(batch.results[i])
                      => IsDegraded(batch.results[i], batch.results[i].original_text)
          /\ (\A i \in 1..Len(batch.results) : ResponseValid(batch.results[i]))
                => batch.resp.status = 200

C16_Witness ==
    /\ batch.pc = "responded"
    /\ batch.resp.status = 200
    /\ Len(batch.texts) = 2
    /\ batch.allFailed = {1}
    /\ ~HasError(batch.results[2])

\* the texts of results that came from the cache
FromCache(results) ==
    {i \in 1..Len(results) : results[i].cache_level \in {"L1", "L2"}}

\* C17: when a batch is over, cache_hits is the number of texts answered
\* from the cache, api_calls the number of texts for which the chain was
\* invoked, cache_hits + api_calls = total_count = len(texts) and
\* successful_count + failed_count = total_count.
C17_BatchStatistics ==
    batch.pc = "responded" =>
        /\ batch.cache_hits = Cardinality(FromCache(batch.results))
        /\ batch.api_calls = batch.started
        /\ batch.cache_hits + batch.api_calls = Len(batch.texts)
        /\ batch.resp.status = 200 =>
              /\ batch.resp.total_count = Some(Len(batch.texts))
              /\ batch.resp.successful_count[1] + batch.resp.failed_count[1]
                    = batch.resp.total_count[1]
              /\ batch.resp.successful_count[1]
                    = Cardinality({i \in 1..Len(batch.results) :
                                      ~HasError(batch.results[i])})
              /\ ~batch.minimal =>
                    /\ batch.resp.cache_hits = Some(batch.cache_hits)
                    /\ batch.resp.api_calls = Some(batch.api_calls)

C17_Witness ==
    /\ batch.pc = "responded"
    /\ batch.resp.status = 200
    /\ ~batch.minimal
    /\ batch.resp.cache_hits = Some(1)
    /\ batch.resp.api_calls = Some(1)

\* the results without an error among the first i results of the handler
Succeeded(i) == {k \in 1..i : ~HasError(batch.results[k])}

\* C38: the minimal response of a batch lists the results that carry no
\* error, and only those, in the order of the texts, each as translated
\* text, source and target language; successful_count is the length of that
\* list, total_count the number of texts and failed_count their difference.
C38_MinimalResponse ==
    (batch.pc = "responded" /\ batch.minimal /\ batch.resp.status = 200) =>
       /\ Len(batch.results) = Len(batch.texts)
       /\ Len(batch.resp.results) = Cardinality(Succeeded(Len(batch.results)))
       /\ \A i \in Succeeded(Len(batch.results)) :
             batch.resp.results[Cardinality(Succeeded(i))] =
                [translated_text |-> batch.results[i].translated_text,
                 source_language |-> batch.results[i].source_language,
                 target_language |-> batch.results[i].target_language]
       /\ batch.resp.successful_count = Some(Len(batch.resp.results))
       /\ batch.resp.total_count = Some(Len(batch.texts))
       /\ batch.resp.failed_count =
             Some(Len(batch.texts) - Len(batch.resp.results))

\* a minimal response to two texts of which the first failed
C38_Witness ==
    /\ batch.pc = "responded"
    /\ batch.minimal
    /\ batch.resp.status = 200
    /\ Len(batch.texts) = 2
    /\ HasError(batch.results[1])
    /\ ~HasError(batch.results[2])
    /\ Len(batch.resp.results) = 1

\* C18: with at least one worker and provider requests that return,
\* translate_batch returns; when it does every text went through the
\* semaphore (no task is left queued) and has a result, also when requests
\* timed out.
C18_BatchLiveness ==
    /\ (gather.pc = "running") ~> (gather.pc = "returned")
    /\ [](gather.pc = "returned" =>
             /\ Queued(gather.tasks) = {}
             /\ InFlight(gather.tasks) = {}
             /\ Len(gather.results[1]) = Len(gather.texts))

C18_Witness ==
    /\ gather.pc = "returned"
    /\ gather.max_workers = 1
    /\ Len(gather.texts) = 3
    /\ \E i \in 1..Len(gather.tasks) : "mymemory" \in gather.tasks[i].failed
    /\ Len(gather.results[1]) = 3

----------------------------------------------------------------------------
(* Properties of concurrent requests (SpecConc) *)

\* requests s and t both missed the cache for the same text and target
\* language and both went through the chain; the set of t was the later one
BothMissedThenSet(s, t) ==
    /\ reqs[s].pc = "done" /\ reqs[s].missed
    /\ reqs[t].pc = "done" /\ reqs[t].missed
    /\ reqs[s].req.text = reqs[t].req.text
    /\ reqs[s].req.target_language = reqs[t].req.target_language
    /\ reqs[s].setNo < reqs[t].setNo

\* the entry a get of the request's text and language returns, Redis
\* answering
StoredFor(r) ==
    CacheGet(hashSeed, enable_l1, redis_client, l1, l2, now,
             r.text, r.target_language, "ok").ret

\* C20: when two concurrent requests for the same uncached text and target
\* language have both missed, both gone through the provider chain and both
\* called set, with a cache tier that took the later write (L1 enabled, or
\* Redis accepting it), the entry stored under the key is the result the
\* later set wrote.
C20_LaterSetWins ==
    \A s \in Slots, t \in Slots :
       (/\ BothMissedThenSet(s, t)
        /\ enable_l1 \/ (redis_client /\ reqs[t].write = "ok"))
       => /\ StoredFor(reqs[t].req) # NONE
          /\ StoredFor(reqs[t].req)[1].translated_text
                = reqs[t].result[1].translated_text
          /\ StoredFor(reqs[t].req)[1].service = reqs[t].result[1].service
          /\ StoredFor(reqs[t].req)[1].source_language
                = reqs[t].result[1].source_language

----------------------------------------------------------------------------
(* Properties of what the handlers store (Spec) *)

\* C21: no entry of L1 or L2 holds a degraded all-providers-failed result:
\* only a successful resolution creates an entry.
C21_NoCachedFailure ==
    /\ \A i \in 1..Len(l1) : ~HasError(l1[i].val)
    /\ \A k \in DOMAIN l2 : ~HasError(l2[k].val)

\* the key of the request being handled
ReqKey == _generate_cache_key(hashSeed, hreq.text, hreq.target_language)

\* the step in which the handler calls set for the key k
SetStepFor(k) ==
    /\ caller = "single"
    /\ tpc # "done"
    /\ tpc' = "done"
    /\ k = ReqKey

\* C22: a stored entry is what translate returned when it was set: it never
\* carries the processing_time_ms or the cache_level a get or a handler put
\* on the dict handed to the caller, and what is stored under a key changes
\* only in a step that sets that key, to the value handed to set.
C22_EntryImmutable ==
    /\ [](/\ \A i \in 1..Len(l1) : /\ ~l1[i].val.processing_time_ms
                                   /\ l1[i].val.cache_level = "absent"
          /\ \A k \in DOMAIN l2 : /\ ~l2[k].val.processing_time_ms
                                  /\ l2[k].val.cache_level = "absent")
    /\ [][\A k \in DOMAIN l2' :
            (k \notin DOMAIN l2 \/ l2'[k] # l2[k])
               => /\ SetStepFor(k)
                  /\ l2'[k].val = tresult'[1]]_vars

\* a request answered from Redis: the response carries the level and the
\* time, the entry in Redis is as it was set
C22_Witness ==
    /\ hreq # NoRequest
    /\ hget.ret # NONE
    /\ hresp.status = 200
    /\ hresp.body[1].processing_time_ms
    /\ hresp.body[1].cache_level = "L2"
    /\ ReqKey \in DOMAIN l2
    /\ ~l2[ReqKey].val.processing_time_ms
    /\ l2[ReqKey].val.cache_level = "absent"

----------------------------------------------------------------------------
(* Properties of the candidate choice (SpecPick) *)

\* the candidates of the answer that count as matches, by position
Candidates ==
    {i \in 1..Len(pure.matches) :
        /\ Lower(Strip(pure.matches[i].segment)) = Lower(Strip(pure.text))
        /\ Strip(pure.matches[i].translation) # <<>>
        /\ pure.matches[i].quality >= MIN_QUALITY}

NativeAt(i) ==
    is_native_script(Strip(pure.matches[i].translation), pure.target_language)

\* C26: when candidates count as matches, the result is one of them, with
\* its quality as the confidence: none of its script class has a higher
\* quality or the same quality at an earlier position, and a transliterated
\* candidate is the result only if no native-script candidate has an equal
\* or higher quality.
C26_CandidatePreference ==
    (pure.op = "translate_with_mymemory" /\ Candidates # {}) =>
       /\ pure.ret # NONE
       /\ \E i \in Candidates :
             /\ pure.ret[1].translated_text = Strip(pure.matches[i].translation)
             /\ pure.ret[1].confidence = pure.matches[i].quality
             /\ \A j \in Candidates :
                   NativeAt(j) = NativeAt(i) =>
                      /\ pure.matches[j].quality <= pure.matches[i].quality
                      /\ pure.matches[j].quality = pure.matches[i].quality
                            => \/ j >= i
                               \/ pure.matches[j].translation
                                     = pure.matches[i].translation
             /\ ~NativeAt(i) =>
                   \A j \in Candidates :
                      NativeAt(j) =>
                         pure.matches[j].quality < pure.matches[i].quality

\* a transliterated candidate came first, a native-script one of the same
\* quality second, and the native-script one is the result
C26_Witness ==
    /\ pure.op = "translate_with_mymemory"
    /\ Len(pure.matches) = 2
    /\ Candidates = {1, 2}
    /\ ~NativeAt(1)
    /\ NativeAt(2)
    /\ pure.matches[1].quality = pure.matches[2].quality
    /\ pure.ret[1].translated_text = Strip(pure.matches[2].translation)

----------------------------------------------------------------------------
(* Properties of the chunks (SpecChunk) *)

\* C27 as stated: every fragment is at most max_length long, a text of at
\* most max_length is its own single fragment, and a text of more than twice
\* max_length (1000 characters with limit 450) yields at least 3 fragments.
C27_ChunkLengthBoundAsStated ==
    pure.op = "_chunk_text" =>
       /\ \A i \in 1..Len(pure.ret) : Len(pure.ret[i]) <= pure.max_length
       /\ Len(pure.text) <= pure.max_length => pure.ret = <<pure.text>>
       /\ Len(pure.text) > 2 * pure.max_length => Len(pure.ret) >= 3

\* no sentence of the text begins with whitespace: neither the text nor
\* what follows a ". "
NoLeadingSpace(text) ==
    /\ text # <<>>
    /\ ~IsSpace(text[1])
    /\ \A i \in 1..(Len(text) - 2) :
          (text[i] = Dot /\ text[i + 1] = Space) => ~IsSpace(text[i + 2])

\* C27, amended: every fragment is at most max_length long, a text of at
\* most max_length is its own single fragment, and a text of more than twice
\* max_length none of whose sentences begins with whitespace yields at least
\* 3 fragments.
C27_ChunkLengthBound ==
    pure.op = "_chunk_text" =>
       /\ \A i \in 1..Len(pure.ret) : Len(pure.ret[i]) <= pure.max_length
       /\ Len(pure.text) <= pure.max_length => pure.ret = <<pure.text>>
       /\ (Len(pure.text) > 2 * pure.max_length /\ NoLeadingSpace(pure.text))
             => Len(pure.ret) >= 3

\* a sentence of 7 letters with limit 3 was split by character count
C27_Witness ==
    /\ pure.op = "_chunk_text"
    /\ pure.max_length = 3
    /\ Len(pure.text) = 7
    /\ \A i \in 1..7 : pure.text[i] = 97
    /\ Len(pure.ret) >= 3
    /\ Len(pure.ret[1]) = 3

\* the fragments one after the other
RECURSIVE Concat(_)
Concat(seqs) == IF seqs = <<>> THEN <<>> ELSE Head(seqs) \o Concat(Tail(seqs))

\* a text without its whitespace
NoSpaces(s) == SelectSeq(s, LAMBDA c : ~IsSpace(c))

\* C28: for a text longer than max_length the fragments, concatenated in
\* order, are the input up to whitespace: nothing of the input is missing,
\* nothing is added and nothing is repeated.
C28_ChunkReconstruction ==
    (pure.op = "_chunk_text" /\ Len(pure.text) > pure.max_length) =>
       NoSpaces(Concat(pure.ret)) = NoSpaces(pure.text)

----------------------------------------------------------------------------
(* Properties of _translate_single_chunk (SpecChunked) *)

\* the fragments whose result carries an error
FailedAt == {j \in 1..Len(chunked.results) : HasError(chunked.results[j])}

\* the call is inside translate
ChunkedWaiting == chunked.pc \in {"mymemory", "libretranslate"}

\* C29: the fragments of a text of more than 450 characters are sent to
\* translate one at a time and in the order of the fragments, each after the
\* result of the one before; when a fragment's result carries an error the
\* call has returned exactly that result, the failed fragment is the last
\* one sent, and from then on nothing more is sent.
C29_FailFast ==
    /\ [](chunked # NoChunked /\ Len(chunked.text) > ChunkThreshold =>
            /\ Len(chunked.calls) <= Len(chunked.chunks)
            /\ \A j \in 1..Len(chunked.calls) :
                  chunked.calls[j].text = chunked.chunks[j]
            /\ Len(chunked.results) =
                  IF ChunkedWaiting THEN Len(chunked.calls) - 1
                  ELSE Len(chunked.calls)
            /\ \A j \in FailedAt :
                  /\ j = Len(chunked.calls)
                  /\ chunked.pc = "returned"
                  /\ chunked.result = Some(chunked.results[j])
                  /\ chunked.result[1].service # "chunked")
    /\ [][chunked # NoChunked /\ FailedAt # {} => chunked' = chunked]_vars

\* a call whose second fragment failed while fragments were left
C29_Witness ==
    /\ chunked # NoChunked
    /\ Len(chunked.text) > ChunkThreshold
    /\ chunked.pc = "returned"
    /\ FailedAt = {2}
    /\ Len(chunked.chunks) > 2
    /\ Len(chunked.calls) = 2

\* the translations translate returned, in the order of the calls
FragmentTranslations == [j \in 1..Len(chunked.results) |->
                    chunked.results[j].translated_text]

\* C30: for a text of at most 450 characters the call makes one call of
\* translate, with the whole text, and returns its result as it is; for a
\* longer text whose fragments all succeed it returns the translations of the
\* fragments, one per fragment and in their order, joined by single spaces,
\* with service "chunked", confidence 75 and no error.
C30_ChunkedResult ==
    (chunked # NoChunked /\ chunked.pc = "returned") =>
       /\ Len(chunked.text) <= ChunkThreshold =>
             /\ chunked.calls =
                   <<[text |-> chunked.text,
                      source_language |-> chunked.source_language,
                      target_language |-> chunked.target_language]>>
             /\ Len(chunked.results) = 1
             /\ chunked.result = Some(chunked.results[1])
       /\ (Len(chunked.text) > ChunkThreshold /\ FailedAt = {}) =>
             /\ Len(chunked.results) = Len(chunked.chunks)
             /\ \A j \in 1..Len(chunked.chunks) :
                   chunked.calls[j].text = chunked.chunks[j]
             /\ chunked.result[1].translated_text = JoinSpace(FragmentTranslations)
             /\ chunked.result[1].service = "chunked"
             /\ chunked.result[1].confidence = 75
             /\ ~HasError(chunked.result[1])
             /\ chunked.result[1].source_language = chunked.source_language
             /\ chunked.result[1].target_language = chunked.target_language
             /\ chunked.result[1].original_text = chunked.text

\* a long text of three or more fragments, all translated, two of them to
\* different texts
C30_Witness ==
    /\ chunked # NoChunked
    /\ chunked.pc = "returned"
    /\ Len(chunked.text) > ChunkThreshold
    /\ FailedAt = {}
    /\ Len(chunked.chunks) >= 3
    /\ FragmentTranslations[1] # FragmentTranslations[2]
    /\ FragmentTranslations[2] # FragmentTranslations[3]

----------------------------------------------------------------------------
(* Properties of the confidence (SpecTranslate) *)

\* C37: the result translate returns has a confidence between 0 and 100,
\* whatever quality and match ratio the primary provider sent.
C37_ConfidenceRange ==
    (tpc = "done" /\ tresult # NONE) =>
       tresult[1].confidence \in 0..100

----------------------------------------------------------------------------
(* Properties of the handlers and long texts (SpecLong) *)

\* C31: a request that missed the cache never has a provider working on a
\* text of more than 450 characters: a longer text reaches the providers
\* fragment by fragment.
C31_LongTextChunked ==
    (caller = "single" /\ tpc \in {"mymemory", "libretranslate", "done"}) =>
       Len(targs.text) <= ChunkThreshold

----------------------------------------------------------------------------
(* Properties of TranslationServices.translate_batch and the cache         *)
(* (SpecGatherLive)                                                        *)

\* text i of the batch has an entry in the cache
GatherCached(i) ==
    LET key == _generate_cache_key(hashSeed, gather.texts[i],
                                   gather.target_language)
    IN L1Contains(l1, key, now) \/ L2Has(l2, key, now)

\* C32: translate_batch treats every text as a single resolve does: the
\* chain runs only for a text the cache does not hold, and when
\* translate_batch has returned, every text it translated has its result in
\* the cache.
C32_BatchSamePipeline ==
    gather.pc \in {"running", "returned"} =>
       \A i \in 1..Len(gather.texts) :
          /\ gather.tasks[i].pc \in {"mymemory", "libretranslate"} =>
                ~GatherCached(i)
          /\ gather.pc = "returned" => GatherCached(i)

----------------------------------------------------------------------------
(* Properties of the best guess (SpecGuess) *)

\* candidate i has the normalized input as its segment, a translation and a
\* quality of 75 or more
MayCount(i) ==
    /\ Lower(Strip(pure.matches[i].segment)) = Lower(Strip(pure.text))
    /\ Strip(pure.matches[i].translation) # <<>>
    /\ pure.matches[i].quality >= 75

\* C35: when no candidate has the normalized input as its segment, a
\* non-empty translation and a quality of at least 75, the call returns the
\* translatedText of responseData, native script or not, with the match
\* ratio times 100, truncated, as confidence, and 75 when the ratio is
\* absent or zero.
C35_MatchRuleAndFallback ==
    (/\ pure.op = "mymemory"
     /\ pure.responseData # NONE
     /\ \A i \in 1..Len(pure.matches) : ~MayCount(i)) =>
       /\ pure.ret # NONE
       /\ pure.ret[1].translated_text = pure.responseData[1].translatedText
       /\ pure.ret[1].confidence =
             IF pure.responseData[1].match = 0 THEN 75
             ELSE (pure.responseData[1].match * 100) \div 1000

----------------------------------------------------------------------------
(* Properties of the translations table (SpecStore) *)

\* C33: whatever store_translation_in_db calls have run, in whatever
\* interleaving, no two rows of the table have the same text_hash.
C33_UpsertIdempotent ==
    \A j, k \in 1..Len(audit.rows) :
       j # k => audit.rows[j].text_hash # audit.rows[k].text_hash

----------------------------------------------------------------------------
(* Properties of the two endpoints (SpecService) *)

\* the tasks handed to the BackgroundTasks of the request in hand
RequestTasks == SelectSeq(audit.tasks, LAMBDA t : t.client = 0)

\* the texts of a batch whose results did not come from the cache, in order
FreshTexts(b) ==
    LET RECURSIVE From(_)
        From(i) == IF i > Len(b.results) THEN <<>>
                   ELSE IF i \in FromCache(b.results) THEN From(i + 1)
                   ELSE <<b.texts[i]>> \o From(i + 1)
    IN From(1)

\* C39: a /translate request answered from the cache invokes no provider,
\* leaves the cache as it was and schedules no task; in a batch the tasks
\* scheduled are those of the texts that were not answered from the cache,
\* one provider-chain call was begun for each of these and for no other, and
\* a step that adds no fresh result leaves the cache as it was.
C39_CacheHitFrame ==
    /\ []((caller = "single" /\ hget.ret # NONE) =>
             /\ tpc = "idle"
             /\ tlog = <<>>
             /\ RequestTasks = <<>>)
    /\ []((caller = "batch" /\ batch.pc \in {"running", "responded"}) =>
             /\ [k \in 1..Len(RequestTasks) |-> RequestTasks[k].text]
                   = FreshTexts(batch)
             /\ batch.started
                   = Len(FreshTexts(batch))
                       + (IF batch.pc = "running"
                             /\ tpc \in {"mymemory", "libretranslate"}
                          THEN 1 ELSE 0))
    /\ [][(caller' = "single" /\ hget'.ret # NONE) => l2' = l2]_vars
    /\ [][(caller' = "batch"
             /\ Len(FreshTexts(batch'))
                  = (IF caller = "batch" /\ batch.pc = "running"
                     THEN Len(FreshTexts(batch)) ELSE 0))
          => l2' = l2]_vars

C39_Witness ==
    /\ caller = "batch"
    /\ batch.pc = "responded"
    /\ Len(batch.texts) = 2
    /\ FromCache(batch.results) = {2}
    /\ Len(RequestTasks) = 1

----------------------------------------------------------------------------
(* Properties of the counter (SpecCounter) *)

\* the /translate requests whose fresh translation comes to its end in the
\* step
FinishingFresh ==
    {s \in Slots : /\ reqs[s].pc \in {"mymemory", "libretranslate"}
                   /\ reqs'[s].pc = "done"}

\* the step ends the loop of a batch
BatchFinishing ==
    /\ caller' = "batch"
    /\ batch'.pc = "responded"
    /\ reqs' = reqs
    /\ batch.pc \in {"idle", "running", "responded"}

\* C40: the counter starts at 0 and every step adds to it 1 for each
\* /translate request whose fresh translation ends in the step and
\* len(texts) when the loop of a batch ends in it, and nothing else: a
\* request answered from the cache adds nothing and no increment is lost.
C40_GlobalCounter ==
    /\ total_translations = 0
    /\ [][total_translations'
             = total_translations
                 + Cardinality(FinishingFresh)
                 + (IF BatchFinishing THEN Len(batch'.texts) ELSE 0)]_vars

C40_Witness ==
    /\ total_translations = 4
    /\ batch.pc = "responded"
    /\ batch.cache_hits = 1
    /\ \A s \in Slots : reqs[s].pc = "done" /\ reqs[s].missed

----------------------------------------------------------------------------
(* The state of L1 (SpecCache, SpecConc, SpecService) *)

\* Every write into L1 is behind `if self.l1_cache:`, false of a TTLCache
\* without entries, so L1 holds no entry in any reachable state: no lookup
\* is answered from L1, no entry of it expires and none is evicted.
L1NeverPopulated == l1 = <<>>

====
